---- MODULE Spec2Model ----
(***************************************************************************)
(* A model of the coastviewer-graphs Pinia store (stores/app.js): the      *)
(* OPeNDAP .ascii parsers as operators, and the cache-first fetch actions,  *)
(* their network completions and their cancellation as a state machine.    *)
(*                                                                         *)
(* Representation                                                          *)
(*  - A text is [lines, len]: `lines' is the text cut at line breaks, each  *)
(*    line classified the way the store's regular expressions classify it  *)
(*    (separator, header of a variable, anything else with its leading     *)
(*    index groups and its tokens); `len' is text.length.                  *)
(*  - An element of a parsed array is [k, v] with k one of "num", "null",   *)
(*    "undefined"; JavaScript null for a string field is the value `null'  *)
(*    below, for a timestamp it is 0 and for chartData it is << >>.         *)
(*  - A year label String(n) is kept as ToString(n); where the code turns  *)
(*    a label back into a number (buildChartData) the number is passed.    *)
(***************************************************************************)
EXTENDS Integers, Sequences, FiniteSets, TLC

(***************************************************************************)
(* Program constants                                                        *)
(***************************************************************************)
MAX_LOCALSTORAGE_CACHE_SIZE == 500000
SENTINEL == -9999
TRANSECT_COUNT == 2465

null == "null"

(***************************************************************************)
(* Values                                                                   *)
(***************************************************************************)
\* an element of a parsed array: a number, null, or undefined (a read past the end)
Val(n) == [k |-> "num", v |-> n]
Missing == [k |-> "null", v |-> 0]
Undefined == [k |-> "undefined", v |-> 0]

\* text tokens: a number, or the literal NaN
Tok(n) == [nan |-> FALSE, v |-> n]
NaN == [nan |-> TRUE, v |-> 0]

\* lines of a text
Sep == [k |-> "sep", name |-> "", idx |-> <<>>, toks |-> <<>>]
Hdr(name) == [k |-> "hdr", name |-> name, idx |-> <<>>, toks |-> <<>>]
Row(idx, toks) == [k |-> "row", name |-> "", idx |-> idx, toks |-> toks]

\* a row of a String array: its values in double quotes, padded with blanks
\* or not.  The names have no digits: the numeric patterns find nothing in
\* such a row but its index groups.
Quoted(s, padded) == [s |-> s, padded |-> padded]
NamesRow(idx, strs) ==
  [k |-> "row", name |-> "", idx |-> idx, toks |-> <<>>, strs |-> strs]

Text(lines, len) == [lines |-> lines, len |-> len]
EmptyText == Text(<<>>, 0)

RECURSIVE Flatten(_)
Flatten(ss) == IF ss = <<>> THEN <<>> ELSE Head(ss) \o Flatten(Tail(ss))

Map(s, Op(_)) == [i \in 1..Len(s) |-> Op(s[i])]

\* JavaScript is strict: the argument is evaluated once, then bound
Call(Op(_), arg) == CHOOSE result \in {Op(value) : value \in {arg}} : TRUE

\* a pass that leaves the index groups in place
stripNothing(block) == block

(***************************************************************************)
(* stripOpendapIndices: drops one to four leading index groups of a line.   *)
(***************************************************************************)
stripOpendapIndices(block) ==
  [i \in 1..Len(block) |->
     IF Len(block[i].idx) \in 1..4
       THEN [block[i] EXCEPT !.idx = <<>>]
       ELSE block[i]]

(***************************************************************************)
(* tokenizeNumbers: the numeric tokens in reading order; NUM_PATTERN does   *)
(* not match NaN, and index groups left in the block are numbers too.       *)
(***************************************************************************)
LineNumbers(line) ==
  line.idx \o Map(SelectSeq(line.toks, LAMBDA t : ~t.nan), LAMBDA t : t.v)

tokenizeNumbers(block) == Flatten(Map(block, LineNumbers))

(***************************************************************************)
(* tokenizeNumbersKeepNaN: NUM_RE also matches NaN, mapped to null.         *)
(***************************************************************************)
LineNumbersKeepNaN(line) ==
  Map(line.idx, Val)
    \o Map(line.toks, LAMBDA t : IF t.nan THEN Missing ELSE Val(t.v))

tokenizeNumbersKeepNaN(block) == Flatten(Map(block, LineNumbersKeepNaN))

(***************************************************************************)
(* toYearLabels: YearNumbers are the numbers whose decimal strings are the  *)
(* labels.                                                                  *)
(***************************************************************************)
SeqMin(s) == CHOOSE m \in {s[i] : i \in 1..Len(s)} : \A i \in 1..Len(s) : m <= s[i]
SeqMax(s) == CHOOSE m \in {s[i] : i \in 1..Len(s)} : \A i \in 1..Len(s) : m >= s[i]

\* getUTCFullYear of the day d days after 1970-01-01 (proleptic Gregorian)
UTCFullYear(d) ==
  LET z == d + 719468
      era == z \div 146097
      doe == z - era * 146097
      yoe == (doe - doe \div 1460 + doe \div 36524 - doe \div 146096) \div 365
      doy == doe - (365 * yoe + yoe \div 4 - yoe \div 100)
      mp == (5 * doy + 2) \div 153
  IN  yoe + era * 400 + (IF mp < 10 THEN 0 ELSE 1)

YearNumbers(timeVals) ==
  IF timeVals = <<>> THEN <<>>
  ELSE IF SeqMin(timeVals) >= 1800 /\ SeqMax(timeVals) <= 2100
    THEN timeVals
    ELSE Map(timeVals, UTCFullYear)

toYearLabels(timeVals) == Map(YearNumbers(timeVals), ToString)

(***************************************************************************)
(* capturePayloadBlock: the lines after the header of varName, searched     *)
(* after the first separator line if there is one, up to the next header.   *)
(***************************************************************************)
FirstIndex(s, P(_)) ==
  IF \E i \in 1..Len(s) : P(s[i])
    THEN CHOOSE i \in 1..Len(s) : P(s[i]) /\ \A j \in 1..(i - 1) : ~P(s[j])
    ELSE 0

\* s.slice(i): what follows the first i lines
Slice(s, i) == SubSeq(s, i + 1, Len(s))

\* which names of payloads occur inside which others
NameContains(name, part) ==
  \/ name = part
  \/ <<name, part>> \in {<<"mean_high_water_cross", "mean_high_water">>,
                          <<"mean_low_water_cross", "mean_low_water">>}

\* a header test that is not anchored to the end of the name
HeaderContains(line, varName) ==
  line.k = "hdr" /\ NameContains(line.name, varName)

\* headerRe: the whole line is namespace segments, then exactly varName, then
\* bracket groups; `name' of a header line is its name without the segments
HeaderMatches(line, varName) ==
  line.k = "hdr" /\ line.name = varName

\* a capture that has no separator step: the whole text is searched
capturePayloadBlockWholeText(asciiRaw, varName) ==
  LET Capture(tail) ==
        LET n == FirstIndex(tail, LAMBDA l : l.k = "hdr")
        IN  IF n = 0 THEN tail ELSE SubSeq(tail, 1, n - 1)
      Search(searchBase) ==
        LET m == FirstIndex(searchBase, LAMBDA l : HeaderMatches(l, varName))
        IN  IF m = 0 THEN <<>> ELSE Call(Capture, Slice(searchBase, m))
  IN  Call(Search, asciiRaw.lines)

capturePayloadBlock(asciiRaw, varName) ==
  LET Capture(tail) ==
        LET n == FirstIndex(tail, LAMBDA l : l.k = "hdr")
        IN  IF n = 0 THEN tail ELSE SubSeq(tail, 1, n - 1)
      Search(searchBase) ==
        LET m == FirstIndex(searchBase, LAMBDA l : HeaderMatches(l, varName))
        IN  IF m = 0 THEN <<>> ELSE Call(Capture, Slice(searchBase, m))
      Payload(ascii) ==
        Call(Search, Slice(ascii, FirstIndex(ascii, LAMBDA l : l.k = "sep")))
  IN  Call(Payload, asciiRaw.lines)

(***************************************************************************)
(* buildChartData                                                           *)
(***************************************************************************)
Abs(n) == IF n < 0 THEN -n ELSE n

YearLabel(t) ==
  IF Abs(t) >= 1500 /\ Abs(t) <= 3000 THEN ToString(t) ELSE "t" \o ToString(t)

\* an export that leaves the missing values out of its rows
buildChartDataDropsMissing(crossShore, times, altitude2D) ==
  LET years == Map(times, YearLabel)
      rows == <<[label |-> "cross_shore", vals |-> Map(crossShore, Val)]>>
                \o [ti \in 1..Len(years) |->
                      [label |-> years[ti],
                       vals |-> IF ti <= Len(altitude2D)
                                  THEN SelectSeq(altitude2D[ti], LAMBDA v : v # Missing)
                                  ELSE <<>>]]
  IN  [crossShore |-> crossShore,
       years |-> years,
       altitudeByYear |-> altitude2D,
       chartData |-> rows]

buildChartData(crossShore, times, altitude2D) ==
  LET years == Map(times, YearLabel)
      rows == <<[label |-> "cross_shore", vals |-> Map(crossShore, Val)]>>
                \o [ti \in 1..Len(years) |->
                      [label |-> years[ti],
                       vals |-> IF ti <= Len(altitude2D) THEN altitude2D[ti] ELSE <<>>]]
  IN  [crossShore |-> crossShore,
       years |-> years,
       altitudeByYear |-> altitude2D,
       chartData |-> rows]

(***************************************************************************)
(* parseOpendapAscii.  A thrown Error is ok = FALSE with its message.       *)
(***************************************************************************)
ParseFail(msg) ==
  [ok |-> FALSE, error |-> msg,
   crossShore |-> <<>>, years |-> <<>>, altitudeByYear |-> <<>>, chartData |-> <<>>]

\* the numbers of a payload block, and those of a block stripped of its indices
BlockNumbers(block) == tokenizeNumbers(block)
CleanBlockNumbers(block) == Call(tokenizeNumbers, stripOpendapIndices(block))
CleanBlockValues(block) == Call(tokenizeNumbersKeepNaN, stripOpendapIndices(block))

parseOpendapAscii(ascii) ==
  LET Shape(a) ==
        LET cross == a.cross
            time == a.time
            flatAlt == a.flatAlt
            T == Len(time)
            X == Len(cross)
            rowMajor == [t \in 1..T |-> [x \in 1..X |-> flatAlt[(t - 1) * X + x]]]
            transposed == [t \in 1..T |-> [x \in 1..X |-> flatAlt[(x - 1) * T + t]]]
        IN  IF X = 0 \/ T = 0
              THEN ParseFail("Could not parse cross_shore/time arrays from payload.")
            ELSE IF Len(flatAlt) = 0
              THEN ParseFail("Could not parse altitude array from payload.")
            ELSE IF Len(flatAlt) = T * X
              THEN [ok |-> TRUE, error |-> null] @@ buildChartData(cross, time, rowMajor)
            ELSE IF Len(flatAlt) = X * T
              THEN [ok |-> TRUE, error |-> null] @@ buildChartData(cross, time, transposed)
            ELSE IF Len(flatAlt) = T * 1 * X
              THEN [ok |-> TRUE, error |-> null] @@ buildChartData(cross, time, rowMajor)
            ELSE ParseFail("Altitude size mismatch")
      Sentinel(tokens) == Map(tokens, LAMBDA n : IF n = SENTINEL THEN Missing ELSE Val(n))
  IN  Call(Shape,
           [cross |-> Call(BlockNumbers, capturePayloadBlock(ascii, "cross_shore")),
            time |-> Call(YearNumbers,
                          Call(BlockNumbers, capturePayloadBlock(ascii, "time"))),
            flatAlt |-> Call(Sentinel,
                             Call(CleanBlockNumbers, capturePayloadBlock(ascii, "altitude")))])


(***************************************************************************)
(* parseBasalCoastlineAscii, parseMomentaryCoastlineAscii,                  *)
(* parseMeanHighWaterCrossAscii                                             *)
(***************************************************************************)
Unsentinel(v) == IF v = Val(SENTINEL) THEN Missing ELSE v

At(s, i) == IF i \in 1..Len(s) THEN s[i] ELSE Undefined

parseBasalCoastlineAscii(ascii) ==
  LET Points(a) ==
        LET timeValues == a.timeValues
            basalValues == a.basalValues
            testingValues == a.testingValues
            Data(years) ==
              [i \in 1..Len(years) |->
                 [year |-> years[i], value |-> At(Map(basalValues, Unsentinel), i)]]
        IN  IF Len(timeValues) = 0 \/ Len(basalValues) = 0
              THEN [ok |-> FALSE,
                    error |-> "Could not parse time/basal_coastline arrays from payload.",
                    years |-> <<>>, basalCoastline |-> <<>>, testingCoastline |-> <<>>,
                    dataPoints |-> <<>>]
              ELSE [ok |-> TRUE, error |-> null,
                    years |-> toYearLabels(timeValues),
                    basalCoastline |-> Map(basalValues, Unsentinel),
                    testingCoastline |-> Map(testingValues, Unsentinel),
                    dataPoints |-> Call(Data, toYearLabels(timeValues))]
  IN  Call(Points,
           [timeValues |-> Call(BlockNumbers, capturePayloadBlock(ascii, "time")),
            basalValues |->
              Call(CleanBlockValues, capturePayloadBlock(ascii, "basal_coastline")),
            testingValues |->
              Call(CleanBlockValues, capturePayloadBlock(ascii, "testing_coastline"))])

parseMomentaryCoastlineAscii(ascii) ==
  LET Series(a) ==
        LET timeValues == a.timeValues
            momentaryValues == a.momentaryValues
        IN  IF Len(timeValues) = 0 \/ Len(momentaryValues) = 0
              THEN [ok |-> FALSE,
                    error |-> "Could not parse time/momentary_coastline arrays from payload.",
                    years |-> <<>>, momentaryCoastline |-> <<>>]
              ELSE [ok |-> TRUE, error |-> null,
                    years |-> toYearLabels(timeValues),
                    momentaryCoastline |-> Map(momentaryValues, Unsentinel)]
  IN  Call(Series,
           [timeValues |-> Call(BlockNumbers, capturePayloadBlock(ascii, "time")),
            momentaryValues |->
              Call(CleanBlockValues, capturePayloadBlock(ascii, "momentary_coastline"))])

parseMeanHighWaterCrossAscii(ascii) ==
  LET Series(a) ==
        LET timeValues == a.timeValues
            mhwValues == a.mhwValues
            mlwValues == a.mlwValues
        IN  IF Len(timeValues) = 0 \/ Len(mhwValues) = 0
              THEN [ok |-> FALSE,
                    error |-> "Could not parse time/mean_high_water_cross arrays from payload.",
                    years |-> <<>>, meanHighWaterCross |-> <<>>, meanLowWaterCross |-> <<>>]
              ELSE [ok |-> TRUE, error |-> null,
                    years |-> toYearLabels(timeValues),
                    meanHighWaterCross |-> Map(mhwValues, Unsentinel),
                    meanLowWaterCross |-> Map(mlwValues, Unsentinel)]
  IN  Call(Series,
           [timeValues |-> Call(BlockNumbers, capturePayloadBlock(ascii, "time")),
            mhwValues |->
              Call(CleanBlockValues, capturePayloadBlock(ascii, "mean_high_water_cross")),
            mlwValues |->
              Call(CleanBlockValues, capturePayloadBlock(ascii, "mean_low_water_cross"))])

(***************************************************************************)
(* _parseIdList (parseInt of an integer token is the token)                 *)
(***************************************************************************)
parseIdList(ascii) == Call(CleanBlockNumbers, capturePayloadBlock(ascii, "id"))

(***************************************************************************)
(* fetchWaterLevelsInfo, the parsing of its response: both lists keep NaN   *)
(* as null; an empty list or lists of different lengths are an Error.       *)
(***************************************************************************)
parseWaterLevels(text) ==
  LET Lists(a) ==
        IF Len(a.high) = 0 \/ Len(a.high) # Len(a.low)
          THEN [ok |-> FALSE, error |-> "Water level arrays size mismatch or empty",
                high |-> <<>>, low |-> <<>>]
          ELSE [ok |-> TRUE, error |-> null, high |-> a.high, low |-> a.low]
  IN  Call(Lists,
           [high |-> Call(CleanBlockValues, capturePayloadBlock(text, "mean_high_water")),
            low |-> Call(CleanBlockValues, capturePayloadBlock(text, "mean_low_water"))])

(***************************************************************************)
(* parseQuotedStringArray: the quoted strings of the payload in reading     *)
(* order, each without its quotes and trimmed.                              *)
(***************************************************************************)
LineStrings(line) ==
  IF "strs" \in DOMAIN line THEN Map(line.strs, LAMBDA q : q.s) ELSE <<>>

parseQuotedStringArray(payload) ==
  Flatten(Map(stripOpendapIndices(payload), LineStrings))

(***************************************************************************)
(* fetchAreaInfo and fetchRspInfo, the parsing of their responses: parallel *)
(* arrays, an Error when one is empty or their lengths differ.              *)
(***************************************************************************)
\* a check that only asks for a first array that is not empty
parseAreaInfoUnchecked(text) ==
  LET Lists(a) ==
        IF Len(a.codes) = 0
          THEN [ok |-> FALSE, error |-> "Area arrays size mismatch or empty",
                codes |-> <<>>, names |-> <<>>]
          ELSE [ok |-> TRUE, error |-> null, codes |-> a.codes, names |-> a.names]
  IN  Call(Lists,
           [codes |-> Call(CleanBlockNumbers, capturePayloadBlock(text, "areacode")),
            names |-> Call(parseQuotedStringArray, capturePayloadBlock(text, "areaname"))])

parseAreaInfo(text) ==
  LET Lists(a) ==
        IF Len(a.codes) = 0 \/ Len(a.names) = 0 \/ Len(a.codes) # Len(a.names)
          THEN [ok |-> FALSE, error |-> "Area arrays size mismatch or empty",
                codes |-> <<>>, names |-> <<>>]
          ELSE [ok |-> TRUE, error |-> null, codes |-> a.codes, names |-> a.names]
  IN  Call(Lists,
           [codes |-> Call(CleanBlockNumbers, capturePayloadBlock(text, "areacode")),
            names |-> Call(parseQuotedStringArray, capturePayloadBlock(text, "areaname"))])

parseRspInfo(text) ==
  LET Lists(a) ==
        LET n == Len(a.x)
        IN  IF n = 0 \/ Len(a.y) # n \/ Len(a.lat) # n \/ Len(a.lon) # n
              THEN [ok |-> FALSE, error |-> "RSP arrays size mismatch or empty",
                    x |-> <<>>, y |-> <<>>, lat |-> <<>>, lon |-> <<>>]
              ELSE [ok |-> TRUE, error |-> null,
                    x |-> a.x, y |-> a.y, lat |-> a.lat, lon |-> a.lon]
  IN  Call(Lists,
           [x |-> Call(CleanBlockNumbers, capturePayloadBlock(text, "rsp_x")),
            y |-> Call(CleanBlockNumbers, capturePayloadBlock(text, "rsp_y")),
            lat |-> Call(CleanBlockNumbers, capturePayloadBlock(text, "rsp_lat")),
            lon |-> Call(CleanBlockNumbers, capturePayloadBlock(text, "rsp_lon"))])

(***************************************************************************)
(* Bounds of the model                                                      *)
(***************************************************************************)
\* network requests (foreground, background and catalog) started in a run
MaxReq == 3
\* index groups in front of a row of a payload
MaxDepth == 4

(***************************************************************************)
(* The environment: what the server may answer, and the keys callers use    *)
(***************************************************************************)
GoodLines ==
  << Row(<<>>, <<Tok(TRANSECT_COUNT)>>),
     Sep,
     Hdr("cross_shore"), Row(<<>>, <<Tok(10), Tok(20), Tok(30)>>),
     Hdr("time"), Row(<<>>, <<Tok(2010), Tok(2011)>>),
     Hdr("altitude"), Row(<<0, 0>>, <<Tok(15), Tok(SENTINEL), Tok(25)>>),
                      Row(<<1, 0>>, <<Tok(35), Tok(45), Tok(55)>>),
     Hdr("basal_coastline"), Row(<<0>>, <<Tok(7)>>), Row(<<1>>, <<NaN>>),
     Hdr("testing_coastline"), Row(<<0>>, <<Tok(SENTINEL)>>), Row(<<1>>, <<Tok(8)>>),
     Hdr("momentary_coastline"), Row(<<0>>, <<Tok(3)>>), Row(<<1>>, <<Tok(4)>>),
     Hdr("mean_high_water_cross"), Row(<<0>>, <<Tok(1)>>), Row(<<1>>, <<Tok(2)>>),
     Hdr("mean_low_water_cross"), Row(<<0>>, <<NaN>>), Row(<<1>>, <<Tok(0)>>),
     Hdr("id"), Row(<<>>, <<Tok(7), Tok(9)>>) >>

\* a response every parser accepts, exactly as long as the cache ceiling
GoodText == Text(GoodLines, MAX_LOCALSTORAGE_CACHE_SIZE)
\* the same payload one character over the ceiling
BigText == Text(GoodLines, MAX_LOCALSTORAGE_CACHE_SIZE + 1)
\* a 200 response without any payload header (an error page)
BadText == Text(<<Row(<<>>, <<Tok(404)>>)>>, 9)

Texts == {GoodText, BigText, BadText, EmptyText}

Responses ==
  [status : {"ok"}, text : Texts]
    \cup [status : {"http", "network"}, text : {EmptyText}]

TransectIndices == {0, 1, TRANSECT_COUNT}

Slots == {"profile", "basal", "momentary", "mhw"}

ProfileUrl(idx) == "transect.nc.ascii?altitude[" \o ToString(idx) \o "]"
BasalUrl(idx) == "BKL_TKL_TND.nc.ascii?basal_coastline[" \o ToString(idx) \o "]"
MomentaryUrl(idx) == "MKL.nc.ascii?momentary_coastline[" \o ToString(idx) \o "]"
MhwUrl(idx) == "MHW_MLW.nc.ascii?mean_high_water_cross[" \o ToString(idx) \o "]"

\* the urls Home.vue builds from an index of the catalog
Urls == {ProfileUrl(0), ProfileUrl(1)}

\* the urls the actions of a slot build from the indices they accept
UrlsOf(slot) ==
  CASE slot = "profile" -> Urls
    [] slot = "basal" -> {BasalUrl(i) : i \in TransectIndices \ {TRANSECT_COUNT}}
    [] slot = "momentary" -> {MomentaryUrl(i) : i \in TransectIndices \ {TRANSECT_COUNT}}
    [] slot = "mhw" -> {MhwUrl(i) : i \in TransectIndices \ {TRANSECT_COUNT}}

ID_LIST_CACHE_KEY == "jarkus_id_list_v1"
AREA_CACHE_KEY == "jarkus_area_v1"
RSP_CACHE_KEY == "jarkus_rsp_v1"

cacheKey(url) == "opendap_cache::" \o url

CacheKeyOf(slot, url) ==
  CASE slot = "profile" -> cacheKey(url)
    [] slot = "basal" -> "bkl_cache::" \o url
    [] slot = "momentary" -> "mkl_cache::" \o url
    [] slot = "mhw" -> "mhw_cache::" \o url

(***************************************************************************)
(* State                                                                    *)
(***************************************************************************)
VARIABLES
  store,         \* the Pinia store's state
  localStorage,  \* window.localStorage: key -> the parsed JSON entry
  requests,      \* every network request started, in order of its start
  panel,         \* SidePanel.vue: the route's slug and the component's refs
  cleared        \* history: the requests in flight at a clearCache of their url

vars == <<store, localStorage, requests, panel, cleared>>

\* fields in which the momentary series uses the controller of the profile
FieldsSharedAborter(slot) ==
  CASE slot = "profile" ->
         [loading |-> "loading", error |-> "error", ready |-> "chartReady",
          fetchedAt |-> "fetchedAt", aborter |-> "_aborter"]
    [] slot = "basal" ->
         [loading |-> "loadingBasal", error |-> "basalError", ready |-> "basalReady",
          fetchedAt |-> "basalFetchedAt", aborter |-> "_basalAborter"]
    [] slot = "momentary" ->
         [loading |-> "loadingMomentary", error |-> "momentaryError",
          ready |-> "momentaryReady", fetchedAt |-> "momentaryFetchedAt",
          aborter |-> "_aborter"]
    [] slot = "mhw" ->
         [loading |-> "loadingMhw", error |-> "mhwError", ready |-> "mhwReady",
          fetchedAt |-> "mhwFetchedAt", aborter |-> "_mhwAborter"]

\* the store's fields of one slot
Fields(slot) ==
  CASE slot = "profile" ->
         [loading |-> "loading", error |-> "error", ready |-> "chartReady",
          fetchedAt |-> "fetchedAt", aborter |-> "_aborter"]
    [] slot = "basal" ->
         [loading |-> "loadingBasal", error |-> "basalError", ready |-> "basalReady",
          fetchedAt |-> "basalFetchedAt", aborter |-> "_basalAborter"]
    [] slot = "momentary" ->
         [loading |-> "loadingMomentary", error |-> "momentaryError",
          ready |-> "momentaryReady", fetchedAt |-> "momentaryFetchedAt",
          aborter |-> "_momentaryAborter"]
    [] slot = "mhw" ->
         [loading |-> "loadingMhw", error |-> "mhwError", ready |-> "mhwReady",
          fetchedAt |-> "mhwFetchedAt", aborter |-> "_mhwAborter"]

\* the slot's parser, its result as the store fields it is assigned to
ParseText(slot, text) ==
  LET Profile(p) ==
        [ok |-> p.ok, error |-> p.error,
         data |-> [chartData |-> p.chartData, years |-> p.years,
                   crossShore |-> p.crossShore, altitudeByYear |-> p.altitudeByYear]]
      Basal(p) ==
        [ok |-> p.ok, error |-> p.error,
         data |-> [basalYears |-> p.years, basalCoastline |-> p.basalCoastline,
                   testingCoastline |-> p.testingCoastline,
                   basalDataPoints |-> p.dataPoints]]
      Momentary(p) ==
        [ok |-> p.ok, error |-> p.error,
         data |-> [momentaryYears |-> p.years,
                   momentaryCoastline |-> p.momentaryCoastline]]
      Mhw(p) ==
        [ok |-> p.ok, error |-> p.error,
         data |-> [mhwYears |-> p.years,
                   meanHighWaterCross |-> p.meanHighWaterCross,
                   meanLowWaterCross |-> p.meanLowWaterCross]]
  IN  CASE slot = "profile" -> Call(Profile, parseOpendapAscii(text))
        [] slot = "basal" -> Call(Basal, parseBasalCoastlineAscii(text))
        [] slot = "momentary" -> Call(Momentary, parseMomentaryCoastlineAscii(text))
        [] slot = "mhw" -> Call(Mhw, parseMeanHighWaterCrossAscii(text))

\* the parsers are pure: their results on the texts of the environment,
\* computed once
ParseTable == [slot \in Slots |-> [text \in Texts |-> ParseText(slot, text)]]
ParseFor(slot, text) == ParseTable[slot][text]

\* a reset that forgets the altitude matrix of the profile
ClearedKeepsAltitude(slot) ==
  CASE slot = "profile" ->
         [chartData |-> <<>>, years |-> <<>>, crossShore |-> <<>>]
    [] slot = "basal" ->
         [basalYears |-> <<>>, basalCoastline |-> <<>>, testingCoastline |-> <<>>,
          basalDataPoints |-> <<>>]
    [] slot = "momentary" ->
         [momentaryYears |-> <<>>, momentaryCoastline |-> <<>>]
    [] slot = "mhw" ->
         [mhwYears |-> <<>>, meanHighWaterCross |-> <<>>, meanLowWaterCross |-> <<>>]

\* the slot's data fields as a foreground fetch resets them
Cleared(slot) ==
  CASE slot = "profile" ->
         [chartData |-> <<>>, years |-> <<>>, crossShore |-> <<>>,
          altitudeByYear |-> <<>>]
    [] slot = "basal" ->
         [basalYears |-> <<>>, basalCoastline |-> <<>>, testingCoastline |-> <<>>,
          basalDataPoints |-> <<>>]
    [] slot = "momentary" ->
         [momentaryYears |-> <<>>, momentaryCoastline |-> <<>>]
    [] slot = "mhw" ->
         [mhwYears |-> <<>>, meanHighWaterCross |-> <<>>, meanLowWaterCross |-> <<>>]

HttpError(slot) ==
  CASE slot = "profile" -> "Failed to fetch OpenDAP data"
    [] slot = "basal" -> "Failed to fetch basal coastline data"
    [] slot = "momentary" -> "Failed to fetch momentary coastline data"
    [] slot = "mhw" -> "Failed to fetch mean high water cross data"

NetworkError == "Failed to fetch"
QuotaError == "QuotaExceededError"

InitStore ==
  [loading |-> FALSE, error |-> null, warning |-> null, rawText |-> EmptyText,
   fetchedAt |-> 0,
   chartReady |-> FALSE, chartData |-> <<>>, years |-> <<>>, crossShore |-> <<>>,
   altitudeByYear |-> <<>>,
   loadingIds |-> FALSE, idsError |-> null, idList |-> <<>>, idsFetchedAt |-> 0,
   loadingArea |-> FALSE, areaError |-> null, areacodeList |-> <<>>,
   areanameList |-> <<>>,
   loadingRsp |-> FALSE, rspError |-> null, rspXList |-> <<>>, rspYList |-> <<>>,
   rspLatList |-> <<>>, rspLonList |-> <<>>,
   loadingWater |-> FALSE, waterError |-> null, meanLowWaterList |-> <<>>,
   meanHighWaterList |-> <<>>,
   loadingBasal |-> FALSE, basalError |-> null, basalYears |-> <<>>,
   basalCoastline |-> <<>>, testingCoastline |-> <<>>, basalDataPoints |-> <<>>,
   basalReady |-> FALSE, basalFetchedAt |-> 0,
   loadingMomentary |-> FALSE, momentaryError |-> null, momentaryYears |-> <<>>,
   momentaryCoastline |-> <<>>, momentaryReady |-> FALSE, momentaryFetchedAt |-> 0,
   loadingMhw |-> FALSE, mhwError |-> null, mhwYears |-> <<>>,
   meanHighWaterCross |-> <<>>, meanLowWaterCross |-> <<>>, mhwReady |-> FALSE,
   mhwFetchedAt |-> 0,
   _aborter |-> 0, _basalAborter |-> 0, _momentaryAborter |-> 0, _mhwAborter |-> 0]

\* this.<field> = value, for the fields of rec
Assign(st, rec) == rec @@ st

\* localStorage.getItem: the entry, or NoEntry.  `json' says whether JSON.parse
\* accepts the item; the store itself only writes items that it accepts.
NoEntry ==
  [t |-> 0, data |-> EmptyText, list |-> <<>>, when |-> 0, present |-> FALSE, json |-> TRUE]
SeriesEntry(t, text) ==
  [t |-> t, data |-> text, list |-> <<>>, when |-> 0, present |-> TRUE, json |-> TRUE]
IdsEntry(list, when) ==
  [t |-> 0, data |-> EmptyText, list |-> list, when |-> when, present |-> TRUE, json |-> TRUE]
\* the entry of a catalog of parallel lists: `list' holds the lists
ListsEntry(lists) ==
  [t |-> 0, data |-> EmptyText, list |-> lists, when |-> 0, present |-> TRUE, json |-> TRUE]
\* an item that JSON.parse rejects with a SyntaxError
CorruptEntry ==
  [t |-> 0, data |-> EmptyText, list |-> <<>>, when |-> 0, present |-> TRUE, json |-> FALSE]
SyntaxError == "Unexpected token"

getItem(key) == IF key \in DOMAIN localStorage THEN localStorage[key] ELSE NoEntry
\* a write that keeps the entry a key already has
setItemKeepsOlder(key, entry) ==
  IF key \in DOMAIN localStorage THEN localStorage ELSE (key :> entry) @@ localStorage
setItem(key, entry) == (key :> entry) @@ localStorage
removeItem(key) == [k \in DOMAIN localStorage \ {key} |-> localStorage[k]]

\* a request of the network
Request(kind, slot, url) ==
  [kind |-> kind, slot |-> slot, url |-> url, aborted |-> FALSE,
   status |-> "pending", outcome |-> "none"]

Pending(id) == requests[id].status = "pending"

\* Date.now(): the clock ticks whenever a request settles
now == 1 + Cardinality({id \in DOMAIN requests : ~Pending(id)})

\* the continuation of an aborted fetch is a microtask: it runs before the
\* next network event is delivered
NoMicrotask == \A id \in DOMAIN requests : ~(Pending(id) /\ requests[id].aborted)

\* how a request ended: "applied" (a foreground or catalog result reached the
\* store), "stored" (a background refresh wrote the cache), "cancelled", "failed"
Settle(id, outcome) ==
  [requests EXCEPT ![id].status = "done", ![id].outcome = outcome]

\* route.params.transectNum is a string: `num' says whether Number() of it
\* is finite, v is then its value (whole numbers only)
Slug(n) == [num |-> TRUE, v |-> n]
NoSlug == [num |-> FALSE, v |-> 0]

\* the side panel before it is mounted (nonExactEntered: 0 is null)
InitPanel ==
  [transectNum |-> NoSlug, nonExactEntered |-> 0, didNormalizeOnce |-> FALSE,
   pending |-> FALSE]

Init ==
  /\ store = InitStore
  /\ localStorage = [k \in {} |-> NoEntry]
  /\ requests = <<>>
  /\ panel = InitPanel
  /\ cleared = {}

(***************************************************************************)
(* The cache-first fetch of a series slot: fetchOpendapAscii and its three  *)
(* copies.  A usable entry is applied and refreshed in the background;       *)
(* otherwise the slot's request in flight is aborted and a new one starts.  *)
(***************************************************************************)
\* a store that persists a text of any length
CacheableAlways(text) == text.len >= 0

Cacheable(text) == text.len <= MAX_LOCALSTORAGE_CACHE_SIZE

\* the entry holds a non-empty text that the slot's parser accepts
Usable(slot, entry) ==
  entry.present /\ entry.json /\ entry.data.len > 0 /\ ParseFor(slot, entry.data).ok

ProfileOnly(slot, rec) == IF slot = "profile" THEN rec ELSE <<>>

\* a cache hit that marks the slot ready without assigning the parsed arrays
ServeFromCacheUnapplied(slot, url, entry) ==
  LET f == Fields(slot)
  IN  /\ store' = Assign(store,
                    (f.ready :> TRUE) @@ (f.fetchedAt :> entry.t)
                      @@ (f.error :> null) @@ (f.loading :> FALSE)
                      @@ ProfileOnly(slot, [rawText |-> entry.data, warning |-> null]))
      /\ requests' = Append(requests, Request("bg", slot, url))
      /\ UNCHANGED localStorage

ServeFromCache(slot, url, entry) ==
  LET f == Fields(slot)
  IN  /\ store' = Assign(store,
                    ParseFor(slot, entry.data).data
                      @@ (f.ready :> TRUE) @@ (f.fetchedAt :> entry.t)
                      @@ (f.error :> null) @@ (f.loading :> FALSE)
                      @@ ProfileOnly(slot, [rawText |-> entry.data, warning |-> null]))
      /\ requests' = Append(requests, Request("bg", slot, url))
      /\ UNCHANGED localStorage

\* an abort() that rejects nothing
AbortIgnored(reqs, id) == reqs

\* AbortController.abort(): only a request still awaited is rejected
Abort(reqs, id) ==
  IF id \in DOMAIN reqs /\ reqs[id].status = "pending"
    THEN [reqs EXCEPT ![id].aborted = TRUE]
    ELSE reqs

StartForeground(slot, url) ==
  LET f == Fields(slot)
      id == Len(requests) + 1
  IN  /\ requests' = Append(Abort(requests, store[f.aborter]), Request("fg", slot, url))
      /\ store' = Assign(store,
                    Cleared(slot)
                      @@ (f.aborter :> id) @@ (f.loading :> TRUE) @@ (f.error :> null)
                      @@ (f.ready :> FALSE)
                      @@ ProfileOnly(slot, [warning |-> null]))
      /\ UNCHANGED localStorage

\* The resources (the four series slots and the catalog of ids) share no
\* field, no controller and no cache key: a run exercises one of them.
Touched(res) ==
  \/ res \in Slots /\ store[Fields(res).error] # null
  \/ \E id \in DOMAIN requests : requests[id].slot = res

InSession(res) == \A other \in (Slots \cup {"ids"}) \ {res} : ~Touched(other)

\* the action up to its first await
CacheFirst(slot, url) ==
  \E cached \in {getItem(CacheKeyOf(slot, url))} :
      /\ Len(requests) < MaxReq
      /\ IF Usable(slot, cached)
           THEN ServeFromCache(slot, url, cached)
           ELSE StartForeground(slot, url)

FetchSeries(slot, url) == InSession(slot) /\ CacheFirst(slot, url)

InvalidIndex(slot) ==
  /\ InSession(slot)
  /\ store' = Assign(store, (Fields(slot).error :> "Invalid transect index"))
  /\ UNCHANGED <<localStorage, requests>>

fetchOpendapAscii(url) == FetchSeries("profile", url)

\* an action that builds the url of any index it is given
fetchBasalCoastlineUnchecked(transectIndex) ==
  FetchSeries("basal", BasalUrl(transectIndex))

fetchBasalCoastline(transectIndex) ==
  IF transectIndex < 0 \/ transectIndex >= TRANSECT_COUNT
    THEN InvalidIndex("basal")
    ELSE FetchSeries("basal", BasalUrl(transectIndex))

fetchMomentaryCoastline(transectIndex) ==
  IF transectIndex < 0 \/ transectIndex >= TRANSECT_COUNT
    THEN InvalidIndex("momentary")
    ELSE FetchSeries("momentary", MomentaryUrl(transectIndex))

fetchMeanHighWaterCross(transectIndex) ==
  IF transectIndex < 0 \/ transectIndex >= TRANSECT_COUNT
    THEN InvalidIndex("mhw")
    ELSE FetchSeries("mhw", MhwUrl(transectIndex))

(***************************************************************************)
(* The foreground request settles: the rest of the try block, its catch     *)
(* and its finally.  `quota' says whether localStorage.setItem throws.      *)
(***************************************************************************)
ForegroundAborted(id) ==
  LET r == requests[id]
      f == Fields(r.slot)
  IN  /\ r.kind = "fg" /\ Pending(id) /\ r.aborted
      /\ store' = Assign(store, (f.loading :> FALSE))
      /\ requests' = Settle(id, "cancelled")
      /\ UNCHANGED localStorage

\* a failure handler that fetches the url again by itself
ForegroundFailedRetries(id, resp) ==
  LET r == requests[id]
      f == Fields(r.slot)
      msg == IF resp.status = "http" THEN HttpError(r.slot) ELSE NetworkError
  IN  /\ store' = Assign(store, (f.error :> msg) @@ (f.loading :> FALSE))
      /\ requests' = IF Len(requests) < MaxReq
                       THEN Append(Settle(id, "failed"), Request("fg", r.slot, r.url))
                       ELSE Settle(id, "failed")
      /\ UNCHANGED localStorage

\* a catch block without the finally block after it
ForegroundFailedKeepsLoading(id, resp) ==
  LET r == requests[id]
      f == Fields(r.slot)
      msg == IF resp.status = "http" THEN HttpError(r.slot) ELSE NetworkError
  IN  /\ store' = Assign(store, (f.error :> msg))
      /\ requests' = Settle(id, "failed")
      /\ UNCHANGED localStorage

ForegroundFailed(id, resp) ==
  LET r == requests[id]
      f == Fields(r.slot)
      msg == IF resp.status = "http" THEN HttpError(r.slot) ELSE NetworkError
  IN  /\ store' = Assign(store, (f.error :> msg) @@ (f.loading :> FALSE))
      /\ requests' = Settle(id, "failed")
      /\ UNCHANGED localStorage

ForegroundText(id, text, quota) ==
  \E parsed \in {ParseFor(requests[id].slot, text)} :
  LET r == requests[id]
      f == Fields(r.slot)
      fetched == (f.fetchedAt :> now) @@ ProfileOnly(r.slot, [rawText |-> text])
      write == parsed.ok /\ Cacheable(text)
      cache == IF ~parsed.ok THEN "none"
               ELSE IF ~Cacheable(text) THEN "skipped"
               ELSE IF quota THEN "quota" ELSE "stored"
      warning == IF cache = "quota"
                   THEN [warning |-> "Data fetched and parsed, but too large to cache locally."]
                 ELSE IF cache = "skipped"
                   THEN [warning |-> "Data fetched and parsed, but skipped local caching due to size."]
                 ELSE <<>>
  IN  /\ quota => write
      /\ store' = Assign(store,
                    IF parsed.ok
                      THEN parsed.data @@ (f.ready :> TRUE) @@ (f.loading :> FALSE)
                             @@ fetched @@ ProfileOnly(r.slot, warning)
                      ELSE (f.error :> parsed.error) @@ (f.loading :> FALSE) @@ fetched)
      /\ localStorage' = IF cache = "stored"
                           THEN setItem(CacheKeyOf(r.slot, r.url), SeriesEntry(now, text))
                           ELSE localStorage
      /\ requests' = Settle(id, IF parsed.ok THEN "applied" ELSE "failed")

ForegroundCompletes(id, resp, quota) ==
  /\ requests[id].kind = "fg" /\ Pending(id) /\ ~requests[id].aborted
  /\ NoMicrotask
  /\ IF resp.status = "ok"
       THEN ForegroundText(id, resp.text, quota)
       ELSE ~quota /\ ForegroundFailed(id, resp)

(***************************************************************************)
(* _refreshCacheInBackground and its three copies                           *)
(***************************************************************************)
\* a refresh that shows its time in the slot's visible timestamp
BackgroundCompletesShown(id, resp, quota) ==
  LET r == requests[id]
      stored == resp.status = "ok" /\ Cacheable(resp.text) /\ ~quota
  IN  /\ r.kind = "bg" /\ Pending(id)
      /\ NoMicrotask
      /\ quota => (resp.status = "ok" /\ Cacheable(resp.text))
      /\ localStorage' = IF stored
                           THEN setItem(CacheKeyOf(r.slot, r.url), SeriesEntry(now, resp.text))
                           ELSE localStorage
      /\ requests' = Settle(id, IF stored THEN "stored" ELSE "failed")
      /\ store' = Assign(store, (Fields(r.slot).fetchedAt :> now))

\* a refresh that evicts the entry of its key when it fails
BackgroundCompletesEvicts(id, resp, quota) ==
  LET r == requests[id]
      stored == resp.status = "ok" /\ Cacheable(resp.text) /\ ~quota
  IN  /\ r.kind = "bg" /\ Pending(id)
      /\ NoMicrotask
      /\ quota => (resp.status = "ok" /\ Cacheable(resp.text))
      /\ localStorage' = IF stored
                           THEN setItem(CacheKeyOf(r.slot, r.url), SeriesEntry(now, resp.text))
                           ELSE removeItem(CacheKeyOf(r.slot, r.url))
      /\ requests' = Settle(id, IF stored THEN "stored" ELSE "failed")
      /\ UNCHANGED store

BackgroundCompletes(id, resp, quota) ==
  LET r == requests[id]
      write == resp.status = "ok" /\ Cacheable(resp.text)
      cache == IF resp.status # "ok" THEN "none"
               ELSE IF ~Cacheable(resp.text) THEN "skipped"
               ELSE IF quota THEN "quota" ELSE "stored"
  IN  /\ r.kind = "bg" /\ Pending(id)
      /\ NoMicrotask
      /\ quota => write
      /\ localStorage' = IF cache = "stored"
                           THEN setItem(CacheKeyOf(r.slot, r.url), SeriesEntry(now, resp.text))
                           ELSE localStorage
      /\ requests' = Settle(id, IF cache = "stored" THEN "stored" ELSE "failed")
      /\ UNCHANGED store

(***************************************************************************)
(* loadFromCache, clearCache                                                *)
(***************************************************************************)
loadFromCache(url) ==
  \E cache \in {getItem(cacheKey(url))} :
  \E parsed \in {ParseFor("profile", cache.data)} :
      /\ InSession("profile")
      /\ store' =
           IF ~cache.present
             THEN Assign(store, [error |-> "No cached data for this URL."])
           ELSE IF ~cache.json
             THEN Assign(store, [error |-> SyntaxError])
           ELSE IF parsed.ok
             THEN Assign(store,
                    [rawText |-> cache.data, fetchedAt |-> cache.t, error |-> null,
                     warning |-> null, chartData |-> parsed.data.chartData,
                     years |-> parsed.data.years, crossShore |-> parsed.data.crossShore,
                     altitudeByYear |-> parsed.data.altitudeByYear, chartReady |-> TRUE])
             ELSE Assign(store,
                    [rawText |-> cache.data, fetchedAt |-> cache.t,
                     warning |-> null, error |-> parsed.error])
      /\ UNCHANGED <<localStorage, requests>>

clearCache(url) ==
  /\ InSession("profile")
  /\ localStorage' = removeItem(cacheKey(url))
  /\ UNCHANGED <<store, requests>>

(***************************************************************************)
(* fetchTransectIdList and the completion of its request                    *)
(***************************************************************************)
fetchTransectIdList ==
  LET cached == getItem(ID_LIST_CACHE_KEY)
  IN  IF Len(store.idList) > 0
        THEN UNCHANGED vars
      ELSE IF cached.present /\ cached.json /\ Len(cached.list) > 0
        THEN /\ store' = Assign(store, [idList |-> cached.list, idsFetchedAt |-> cached.when])
             /\ UNCHANGED <<localStorage, requests>>
      ELSE /\ Len(requests) < MaxReq
           /\ InSession("ids")
           /\ store' = Assign(store, [loadingIds |-> TRUE, idsError |-> null])
           /\ requests' = Append(requests, Request("ids", "ids", "IDS_URL"))
           /\ UNCHANGED localStorage

IdListCompletes(id, resp, quota) ==
  \E list \in {parseIdList(resp.text)} :
  LET parsedOk == resp.status = "ok" /\ Len(list) > 0
      msg == IF resp.status = "http" THEN "Failed to load transect catalog"
             ELSE IF resp.status = "network" THEN NetworkError
             ELSE IF ~parsedOk THEN "Could not parse transect catalog"
             ELSE QuotaError
  IN  /\ requests[id].kind = "ids" /\ Pending(id)
      /\ NoMicrotask
      /\ quota => parsedOk
      /\ store' = Assign(store,
                    (IF parsedOk THEN [idList |-> list, idsFetchedAt |-> now] ELSE <<>>)
                      @@ (IF ~parsedOk \/ quota THEN [idsError |-> msg] ELSE <<>>)
                      @@ [loadingIds |-> FALSE])
      /\ localStorage' = IF parsedOk /\ ~quota
                           THEN setItem(ID_LIST_CACHE_KEY, IdsEntry(list, now))
                           ELSE localStorage
      /\ requests' = Settle(id, IF parsedOk THEN "applied" ELSE "failed")

(***************************************************************************)
(* The page is loaded again: the store is constructed anew, the requests of *)
(* the old page are dropped with their continuations, localStorage stays.   *)
(***************************************************************************)
Reload ==
  /\ store' = InitStore
  /\ requests' = [id \in DOMAIN requests |->
                    IF Pending(id)
                      THEN [requests[id] EXCEPT !.status = "done", !.outcome = "dropped"]
                      ELSE requests[id]]
  /\ UNCHANGED localStorage

(***************************************************************************)
(* Specification                                                            *)
(***************************************************************************)
Next ==
  \/ UNCHANGED <<panel, cleared>> /\ \E url \in Urls : fetchOpendapAscii(url)
  \/ UNCHANGED <<panel, cleared>> /\ \E i \in TransectIndices : fetchBasalCoastline(i)
  \/ UNCHANGED <<panel, cleared>> /\ \E i \in TransectIndices : fetchMomentaryCoastline(i)
  \/ UNCHANGED <<panel, cleared>> /\ \E i \in TransectIndices : fetchMeanHighWaterCross(i)
  \/ UNCHANGED <<panel, cleared>> /\ \E url \in Urls : loadFromCache(url)
  \/ UNCHANGED <<panel, cleared>> /\ \E url \in Urls : clearCache(url)
  \/ UNCHANGED <<panel, cleared>> /\ fetchTransectIdList
  \/ UNCHANGED <<panel, cleared>> /\ Reload
  \/ UNCHANGED <<panel, cleared>> /\ \E id \in DOMAIN requests : ForegroundAborted(id)
  \/ UNCHANGED <<panel, cleared>> /\ \E id \in DOMAIN requests, resp \in Responses, quota \in BOOLEAN :
       ForegroundCompletes(id, resp, quota)
  \/ UNCHANGED <<panel, cleared>> /\ \E id \in DOMAIN requests, resp \in Responses, quota \in BOOLEAN :
       BackgroundCompletes(id, resp, quota)
  \/ UNCHANGED <<panel, cleared>> /\ \E id \in DOMAIN requests, resp \in Responses, quota \in BOOLEAN :
       IdListCompletes(id, resp, quota)

Spec == Init /\ [][Next]_vars

(***************************************************************************)
(* The same store on a page whose localStorage already holds items that    *)
(* are not JSON (left by another script of the origin, or cut short).      *)
(***************************************************************************)
InitStorage ==
  /\ store = InitStore
  /\ localStorage = [k \in {cacheKey(ProfileUrl(0)), CacheKeyOf("basal", BasalUrl(0)),
                            ID_LIST_CACHE_KEY} |-> CorruptEntry]
  /\ requests = <<>>
  /\ panel = InitPanel
  /\ cleared = {}

\* the operations that read the items, and the completions of what they start
NextStorage ==
  \/ UNCHANGED <<panel, cleared>> /\ \E url \in Urls : fetchOpendapAscii(url)
  \/ UNCHANGED <<panel, cleared>> /\ \E i \in TransectIndices : fetchBasalCoastline(i)
  \/ UNCHANGED <<panel, cleared>> /\ \E url \in Urls : loadFromCache(url)
  \/ UNCHANGED <<panel, cleared>> /\ fetchTransectIdList
  \/ UNCHANGED <<panel, cleared>> /\ Reload
  \/ UNCHANGED <<panel, cleared>> /\ \E id \in DOMAIN requests : ForegroundAborted(id)
  \/ UNCHANGED <<panel, cleared>> /\ \E id \in DOMAIN requests, resp \in Responses, quota \in BOOLEAN :
       ForegroundCompletes(id, resp, quota)
  \/ UNCHANGED <<panel, cleared>> /\ \E id \in DOMAIN requests, resp \in Responses, quota \in BOOLEAN :
       BackgroundCompletes(id, resp, quota)
  \/ UNCHANGED <<panel, cleared>> /\ \E id \in DOMAIN requests, resp \in Responses, quota \in BOOLEAN :
       IdListCompletes(id, resp, quota)

SpecStorage == InitStorage /\ [][NextStorage]_vars

(***************************************************************************)
(* The parsers on the responses a server may send.  A response is a         *)
(* preamble and a body; the body has every payload the store asks for:      *)
(* the axes and the altitude of two years over three cross-shore positions, *)
(* the series of two years, and the lists of two transects.                 *)
(***************************************************************************)
Layouts == {"rows", "transposed"}
Encodings == {"none", "sentinel", "nan"}
Depths == 0..MaxDepth
Orders == {"lists-first", "cross-first", "cross-only"}
Preambles == {"none", "delimiter", "numbers", "headers", "undelimited"}
\* the time axis: the two years of the payloads, or a year more than they have
TimeAxes == {<<2010, 2011>>, <<2010, 2011, 2012>>}

\* the index groups [r-1][0]... of the r-th row, d of them
Index(r, d) == SubSeq(<<r - 1, 0, 0, 0, 0, 0>>, 1, d)

\* a value as the server writes it: the sentinel or NaN where it is missing
Mark(v, encoding, missing) ==
  IF missing /\ encoding = "sentinel" THEN Tok(SENTINEL)
  ELSE IF missing /\ encoding = "nan" THEN NaN
  ELSE Tok(v)

\* altitude[time][alongshore][cross_shore], a row per year, or (transposed)
\* a row per cross-shore position; the value of year 1 at position 2 is missing
AltitudeRows(layout, encoding, d) ==
  IF layout = "rows"
    THEN [t \in 1..2 |->
            Row(Index(t, d),
                [x \in 1..3 |-> Mark(100 * t + x, encoding, t = 1 /\ x = 2)])]
    ELSE [x \in 1..3 |->
            Row(Index(x, d),
                [t \in 1..2 |-> Mark(100 * t + x, encoding, t = 1 /\ x = 2)])]

\* a series or list, a row per value; the first value is missing
SeriesRows(vals, encoding, d) ==
  [i \in 1..Len(vals) |-> Row(Index(i, d), <<Mark(vals[i], encoding, i = 1)>>)]

Body(layout, encoding, d, order, times) ==
  LET common ==
        <<Hdr("cross_shore"), Row(<<>>, <<Tok(10), Tok(20), Tok(30)>>),
          Hdr("time"), Row(<<>>, Map(times, Tok)),
          Hdr("altitude")>> \o AltitudeRows(layout, encoding, d)
          \o <<Hdr("basal_coastline")>> \o SeriesRows(<<7, 8>>, encoding, d)
          \o <<Hdr("testing_coastline")>> \o SeriesRows(<<5, 6>>, encoding, d)
          \o <<Hdr("momentary_coastline")>> \o SeriesRows(<<3, 4>>, encoding, d)
          \o <<Hdr("id")>> \o SeriesRows(<<7, 9>>, "none", d)
      lists ==
        <<Hdr("mean_high_water")>> \o SeriesRows(<<11, 12>>, encoding, d)
          \o <<Hdr("mean_low_water")>> \o SeriesRows(<<21, 22>>, encoding, d)
      cross ==
        <<Hdr("mean_high_water_cross")>> \o SeriesRows(<<1, 2>>, encoding, d)
          \o <<Hdr("mean_low_water_cross")>> \o SeriesRows(<<-1, -2>>, encoding, d)
  IN  CASE order = "lists-first" -> common \o lists \o cross
        [] order = "cross-first" -> common \o cross \o lists
        [] order = "cross-only" -> common \o cross

\* what precedes the body: nothing, the delimiter alone, the dataset
\* declaration with its sizes, lines that look like headers, and the same
\* without a delimiter after them
Preamble(kind) ==
  CASE kind = "none" -> <<>>
    [] kind = "delimiter" -> <<Sep>>
    [] kind = "numbers" -> <<Row(<<>>, <<Tok(32), Tok(TRANSECT_COUNT)>>), Sep>>
    [] kind = "headers" ->
         <<Hdr("id"), Row(<<>>, <<Tok(TRANSECT_COUNT)>>),
           Hdr("time"), Row(<<>>, <<Tok(1999)>>), Sep>>
    [] kind = "undelimited" -> <<Hdr("id"), Row(<<>>, <<Tok(TRANSECT_COUNT)>>)>>

\* (the length of a document plays no part in parsing: its number of lines)
Document(lines) == Text(lines, Len(lines))

Docs ==
  {Document(Preamble(kind) \o Body(layout, encoding, d, order, times)) :
     kind \in Preambles, layout \in Layouts, encoding \in Encodings,
     d \in Depths, order \in Orders, times \in TimeAxes}

\* a store that has received the text of a response and parsed nothing yet
Received(doc) == Assign(InitStore, [rawText |-> doc])

InitParse ==
  /\ store \in {Received(doc) : doc \in Docs}
  /\ localStorage = [k \in {} |-> NoEntry]
  /\ requests = <<>>
  /\ panel = InitPanel
  /\ cleared = {}

\* the parse step of a series fetch: the parsed arrays and the readiness
\* flag, or the message of the Error in the slot's error field
ParseSeries(slot) ==
  \E parsed \in {ParseText(slot, store.rawText)} :
      /\ store = Received(store.rawText)
      /\ store' = IF parsed.ok
                    THEN Assign(store, parsed.data @@ (Fields(slot).ready :> TRUE))
                    ELSE Assign(store, (Fields(slot).error :> parsed.error))
      /\ UNCHANGED <<localStorage, requests>>

\* the parse step of fetchTransectIdList
ParseIdList ==
  \E list \in {parseIdList(store.rawText)} :
      /\ store = Received(store.rawText)
      /\ store' = IF Len(list) > 0
                    THEN Assign(store, [idList |-> list, idsFetchedAt |-> now])
                    ELSE Assign(store, [idsError |-> "Could not parse transect catalog"])
      /\ UNCHANGED <<localStorage, requests>>

\* the parse step of fetchWaterLevelsInfo
ParseWaterLevels ==
  \E lists \in {parseWaterLevels(store.rawText)} :
      /\ store = Received(store.rawText)
      /\ store' = IF lists.ok
                    THEN Assign(store, [meanHighWaterList |-> lists.high,
                                        meanLowWaterList |-> lists.low])
                    ELSE Assign(store, [waterError |-> lists.error])
      /\ UNCHANGED <<localStorage, requests>>

NextParse ==
  \/ UNCHANGED <<panel, cleared>> /\ \E slot \in Slots : ParseSeries(slot)
  \/ UNCHANGED <<panel, cleared>> /\ ParseIdList
  \/ UNCHANGED <<panel, cleared>> /\ ParseWaterLevels

SpecParse == InitParse /\ [][NextParse]_vars

(***************************************************************************)
(* The catalogs: the list of ids with its entry in localStorage, and the    *)
(* parallel lists of the areas (codes, names) and of the reference points   *)
(* (x, y, lat, lon) on the responses a server may send, whose lists have    *)
(* zero to two values each.                                                 *)
(***************************************************************************)
Counts == 0..2
AreaNames == <<"Ameland", "Texel">>

\* the first n values of a list, a row per value
ListRows(vals, n, d) == [i \in 1..n |-> Row(Index(i, d), <<Tok(vals[i])>>)]
NameRows(n, d) ==
  [i \in 1..n |-> NamesRow(Index(i, d), <<Quoted(AreaNames[i], i = 1)>>)]

\* how many values the response has of rsp_x, rsp_y, rsp_lat, rsp_lon
RspShapes ==
  {<<2, 2, 2, 2>>, <<1, 1, 1, 1>>, <<0, 0, 0, 0>>, <<0, 2, 2, 2>>,
   <<2, 1, 2, 2>>, <<2, 2, 1, 2>>, <<2, 2, 2, 1>>}

CatalogBody(nc, nn, shape, d) ==
  <<Hdr("areacode")>> \o ListRows(<<3, 4>>, nc, d)
    \o <<Hdr("areaname")>> \o NameRows(nn, d)
    \o <<Hdr("rsp_x")>> \o ListRows(<<100, 200>>, shape[1], d)
    \o <<Hdr("rsp_y")>> \o ListRows(<<300, 400>>, shape[2], d)
    \o <<Hdr("rsp_lat")>> \o ListRows(<<52, 53>>, shape[3], d)
    \o <<Hdr("rsp_lon")>> \o ListRows(<<4, 5>>, shape[4], d)

CatalogDocs ==
  {Document(Preamble("numbers") \o CatalogBody(nc, nn, shape, d)) :
     nc \in Counts, nn \in Counts, shape \in RspShapes, d \in Depths}

\* The earlier _parseIdList took every integer after the line of the first
\* "id[" of the response, which is in the dataset declaration: the size in
\* the payload's header "id[2465]" came first, then the ids.  Its list is
\* what a browser that ran that revision holds under the catalog's key.
LegacyIdsEntry == IdsEntry(<<TRANSECT_COUNT, 7, 9>>, 1)

\* a browser that ran the earlier revision, and now runs the store
InitCatalog ==
  /\ store \in {Received(doc) : doc \in CatalogDocs}
  /\ localStorage = [k \in {ID_LIST_CACHE_KEY} |-> LegacyIdsEntry]
  /\ requests = <<>>
  /\ panel = InitPanel
  /\ cleared = {}

\* fetchAreaInfo from the parsing of its response on: the lists and the
\* entry, or the message of the Error; `quota' says whether setItem throws
ParseAreaInfo(quota) ==
  \E lists \in {parseAreaInfo(store.rawText)} :
      /\ store = Received(store.rawText)
      /\ quota => lists.ok
      /\ store' = Assign(store,
                    (IF lists.ok
                       THEN [areacodeList |-> lists.codes, areanameList |-> lists.names]
                       ELSE [areaError |-> lists.error])
                      @@ (IF quota THEN [areaError |-> QuotaError] ELSE <<>>)
                      @@ [loadingArea |-> FALSE])
      /\ localStorage' = IF lists.ok /\ ~quota
                           THEN setItem(AREA_CACHE_KEY,
                                        ListsEntry(<<lists.codes, lists.names>>))
                           ELSE localStorage
      /\ UNCHANGED requests

\* fetchRspInfo from the parsing of its response on
ParseRspInfo(quota) ==
  \E lists \in {parseRspInfo(store.rawText)} :
      /\ store = Received(store.rawText)
      /\ quota => lists.ok
      /\ store' = Assign(store,
                    (IF lists.ok
                       THEN [rspXList |-> lists.x, rspYList |-> lists.y,
                             rspLatList |-> lists.lat, rspLonList |-> lists.lon]
                       ELSE [rspError |-> lists.error])
                      @@ (IF quota THEN [rspError |-> QuotaError] ELSE <<>>)
                      @@ [loadingRsp |-> FALSE])
      /\ localStorage' = IF lists.ok /\ ~quota
                           THEN setItem(RSP_CACHE_KEY,
                                        ListsEntry(<<lists.x, lists.y, lists.lat, lists.lon>>))
                           ELSE localStorage
      /\ UNCHANGED requests

NextCatalog ==
  \/ UNCHANGED <<panel, cleared>> /\ fetchTransectIdList
  \/ UNCHANGED <<panel, cleared>> /\ \E quota \in BOOLEAN : ParseAreaInfo(quota)
  \/ UNCHANGED <<panel, cleared>> /\ \E quota \in BOOLEAN : ParseRspInfo(quota)

SpecCatalog == InitCatalog /\ [][NextCatalog]_vars

(***************************************************************************)
(* fetchAreaInfo, fetchRspInfo and fetchWaterLevelsInfo whole: the guard on *)
(* the lists of the store, the entry in localStorage, the request and its   *)
(* completion.  The three actions are copies of one another.                *)
(***************************************************************************)
WATER_CACHE_KEY == "jarkus_water_v1"

Catalogs == {"area", "rsp", "water"}

\* the store's fields of a catalog, in the order of the lists of its entry
CatalogFields(c) ==
  CASE c = "area" ->
         [loading |-> "loadingArea", error |-> "areaError",
          lists |-> <<"areacodeList", "areanameList">>,
          key |-> AREA_CACHE_KEY, url |-> "AREA_URL",
          failed |-> "Failed to load area info"]
    [] c = "rsp" ->
         [loading |-> "loadingRsp", error |-> "rspError",
          lists |-> <<"rspXList", "rspYList", "rspLatList", "rspLonList">>,
          key |-> RSP_CACHE_KEY, url |-> "RSP_URL",
          failed |-> "Failed to load RSP info"]
    [] c = "water" ->
         [loading |-> "loadingWater", error |-> "waterError",
          lists |-> <<"meanHighWaterList", "meanLowWaterList">>,
          key |-> WATER_CACHE_KEY, url |-> "WATER_URL",
          failed |-> "Failed to load mean water levels"]

\* the catalog's parser, its lists in the order of the catalog's fields
ParseLists(c, text) ==
  LET Area(p) == [ok |-> p.ok, error |-> p.error, lists |-> <<p.codes, p.names>>]
      Rsp(p) == [ok |-> p.ok, error |-> p.error, lists |-> <<p.x, p.y, p.lat, p.lon>>]
      Water(p) == [ok |-> p.ok, error |-> p.error, lists |-> <<p.high, p.low>>]
  IN  CASE c = "area" -> Call(Area, parseAreaInfo(text))
        [] c = "rsp" -> Call(Rsp, parseRspInfo(text))
        [] c = "water" -> Call(Water, parseWaterLevels(text))

\* a response with every list of the catalogs: the first list of each
\* catalog has n values, its second list m values, the others n
ListsText(n, m) ==
  Document(Preamble("numbers") \o CatalogBody(n, m, <<n, m, n, n>>, 1)
             \o <<Hdr("mean_high_water")>> \o ListRows(<<11, 12>>, n, 1)
             \o <<Hdr("mean_low_water")>> \o ListRows(<<21, 22>>, m, 1))

CatalogTexts == {ListsText(2, 2), ListsText(1, 1), ListsText(2, 1), ListsText(0, 0)}

CatalogResponses ==
  [status : {"ok"}, text : CatalogTexts]
    \cup [status : {"http", "network"}, text : {EmptyText}]

\* the parsers are pure: their results on the texts of the catalogs
ListsTable == [c \in Catalogs |-> [text \in CatalogTexts |-> ParseLists(c, text)]]
ListsFor(c, text) == ListsTable[c][text]

\* this.<name> = list, for the names and the lists in their order
ListsRec(names, lists) ==
  [k \in {names[i] : i \in DOMAIN names} |->
     lists[CHOOSE i \in DOMAIN names : names[i] = k]]

\* a guard that never finds the lists filled
MemoisedNever(c) == FALSE /\ c = c

\* the guard of the action: every list of the catalog is filled already
Memoised(c) ==
  \A i \in DOMAIN CatalogFields(c).lists : Len(store[CatalogFields(c).lists[i]]) > 0

\* a reading of the entry that asks only for a first array that is not empty
ValidListsFirstOnly(c, entry) ==
  /\ entry.present /\ entry.json
  /\ Len(entry.list) = Len(CatalogFields(c).lists)
  /\ Len(entry.list[1]) > 0

\* the entry has every array, the first is not empty, all are as long
ValidLists(c, entry) ==
  /\ entry.present /\ entry.json
  /\ Len(entry.list) = Len(CatalogFields(c).lists)
  /\ Len(entry.list[1]) > 0
  /\ \A i \in DOMAIN entry.list : Len(entry.list[i]) = Len(entry.list[1])

FetchCatalog(c) ==
  \E cached \in {getItem(CatalogFields(c).key)} :
  LET f == CatalogFields(c)
  IN  IF Memoised(c)
        THEN UNCHANGED <<store, localStorage, requests>>
      ELSE IF ValidLists(c, cached)
        THEN /\ store' = Assign(store, ListsRec(f.lists, cached.list))
             /\ UNCHANGED <<localStorage, requests>>
      ELSE /\ Len(requests) < MaxReq
           /\ store' = Assign(store, (f.loading :> TRUE) @@ (f.error :> null))
           /\ requests' = Append(requests, Request("catalog", c, f.url))
           /\ UNCHANGED localStorage

fetchAreaInfo == FetchCatalog("area")
fetchRspInfo == FetchCatalog("rsp")
fetchWaterLevelsInfo == FetchCatalog("water")

\* the rest of the try block, its catch and its finally
CatalogCompletes(id, resp, quota) ==
  /\ requests[id].kind = "catalog" /\ Pending(id)
  /\ NoMicrotask
  /\ \E parsed \in {IF resp.status = "ok"
                      THEN ListsFor(requests[id].slot, resp.text)
                      ELSE [ok |-> FALSE, error |-> null, lists |-> <<>>]} :
       LET f == CatalogFields(requests[id].slot)
           msg == IF resp.status = "http" THEN f.failed
                  ELSE IF resp.status = "network" THEN NetworkError
                  ELSE IF ~parsed.ok THEN parsed.error
                  ELSE QuotaError
       IN  /\ quota => parsed.ok
           /\ store' = Assign(store,
                         (IF parsed.ok THEN ListsRec(f.lists, parsed.lists) ELSE <<>>)
                           @@ (IF ~parsed.ok \/ quota THEN (f.error :> msg) ELSE <<>>)
                           @@ (f.loading :> FALSE))
           /\ localStorage' = IF parsed.ok /\ ~quota
                                THEN setItem(f.key, ListsEntry(parsed.lists))
                                ELSE localStorage
           /\ requests' = Settle(id, IF parsed.ok THEN "applied" ELSE "failed")

\* what a browser may hold under the keys of the catalogs: nothing, the
\* entries of an earlier session, entries whose arrays differ in length
\* (written by another revision or script of the origin), items that are
\* not JSON
StoredLists(c) == ListsFor(c, ListsText(2, 2)).lists
UnevenLists(c) ==
  [i \in DOMAIN StoredLists(c) |->
     IF i = 1 THEN StoredLists(c)[i] ELSE SubSeq(StoredLists(c)[i], 1, 1)]
KeyCatalog(key) == CHOOSE c \in Catalogs : CatalogFields(c).key = key
CatalogKeys == {CatalogFields(c).key : c \in Catalogs}

StoredCatalogs ==
  { [k \in {} |-> NoEntry],
    [k \in CatalogKeys |-> ListsEntry(StoredLists(KeyCatalog(k)))],
    [k \in CatalogKeys |-> ListsEntry(UnevenLists(KeyCatalog(k)))],
    [k \in CatalogKeys |-> CorruptEntry] }

InitLists ==
  /\ store = InitStore
  /\ localStorage \in StoredCatalogs
  /\ requests = <<>>
  /\ panel = InitPanel
  /\ cleared = {}

NextLists ==
  \/ UNCHANGED <<panel, cleared>> /\ fetchAreaInfo
  \/ UNCHANGED <<panel, cleared>> /\ fetchRspInfo
  \/ UNCHANGED <<panel, cleared>> /\ fetchWaterLevelsInfo
  \/ UNCHANGED <<panel, cleared>> /\ \E id \in DOMAIN requests, resp \in CatalogResponses, quota \in BOOLEAN :
       CatalogCompletes(id, resp, quota)

SpecLists == InitLists /\ [][NextLists]_vars

(***************************************************************************)
(* Two series and a catalog side by side, as Home.vue and the side panel    *)
(* call them: the requests of several resources are in flight at the same   *)
(* time.                                                                    *)
(***************************************************************************)
SideBySide == {"profile", "momentary"}

NextSlots ==
  \/ UNCHANGED <<panel, cleared>> /\ \E slot \in SideBySide : \E url \in UrlsOf(slot) : CacheFirst(slot, url)
  \/ UNCHANGED <<panel, cleared>> /\ fetchWaterLevelsInfo
  \/ UNCHANGED <<panel, cleared>> /\ \E id \in DOMAIN requests : ForegroundAborted(id)
  \/ UNCHANGED <<panel, cleared>> /\ \E id \in DOMAIN requests, resp \in Responses, quota \in BOOLEAN :
       ForegroundCompletes(id, resp, quota)
  \/ UNCHANGED <<panel, cleared>> /\ \E id \in DOMAIN requests, resp \in Responses, quota \in BOOLEAN :
       BackgroundCompletes(id, resp, quota)
  \/ UNCHANGED <<panel, cleared>> /\ \E id \in DOMAIN requests, resp \in CatalogResponses, quota \in BOOLEAN :
       CatalogCompletes(id, resp, quota)

SpecSlots == Init /\ [][NextSlots]_vars

(***************************************************************************)
(* The profile and the catalog of ids with a network that answers every     *)
(* request: the response, the failure or the AbortError of a request in     *)
(* flight is delivered at some time.                                        *)
(***************************************************************************)
Delivered ==
  \/ \E id \in DOMAIN requests : ForegroundAborted(id)
  \/ \E id \in DOMAIN requests, resp \in Responses, quota \in BOOLEAN :
       ForegroundCompletes(id, resp, quota)
  \/ \E id \in DOMAIN requests, resp \in Responses, quota \in BOOLEAN :
       BackgroundCompletes(id, resp, quota)
  \/ \E id \in DOMAIN requests, resp \in Responses, quota \in BOOLEAN :
       IdListCompletes(id, resp, quota)

NextLive ==
  \/ UNCHANGED <<panel, cleared>> /\ \E url \in Urls : fetchOpendapAscii(url)
  \/ UNCHANGED <<panel, cleared>> /\ fetchTransectIdList
  \/ UNCHANGED <<panel, cleared>> /\ Delivered

SpecLive == Init /\ [][NextLive]_vars /\ WF_vars(UNCHANGED <<panel, cleared>> /\ Delivered)

(***************************************************************************)
(* SidePanel.vue: the index of the route's transect in the list of ids,     *)
(* and the replacement of the slug by the closest id of the list.           *)
(***************************************************************************)
DEFAULT_TRANSECT_NUMBER == 1000475

currentTransectNum ==
  IF panel.transectNum.num /\ panel.transectNum.v > 0
    THEN panel.transectNum.v
    ELSE DEFAULT_TRANSECT_NUMBER

\* Array.prototype.indexOf, with the indices of JavaScript (from 0; -1: none)
indexOf(ids, x) == FirstIndex(ids, LAMBDA e : e = x) - 1

\* a search that moves to a later id at the same distance
RECURSIVE ClosestFromLast(_, _, _, _)
ClosestFromLast(ids, target, i, best) ==
  IF i >= Len(ids) THEN best.idx
  ELSE ClosestFromLast(ids, target, i + 1,
                       IF Abs(ids[i + 1] - target) <= best.diff
                         THEN [idx |-> i, diff |-> Abs(ids[i + 1] - target)]
                         ELSE best)

findClosestIndexLastOnTies(ids, target) ==
  IF Len(ids) = 0 THEN -1
  ELSE ClosestFromLast(ids, target, 1, [idx |-> 0, diff |-> Abs(ids[1] - target)])

\* the loop of findClosestIndex from index i on, best = (bestIdx, bestDiff)
RECURSIVE ClosestFrom(_, _, _, _)
ClosestFrom(ids, target, i, best) ==
  IF i >= Len(ids) THEN best.idx
  ELSE ClosestFrom(ids, target, i + 1,
                   IF Abs(ids[i + 1] - target) < best.diff
                     THEN [idx |-> i, diff |-> Abs(ids[i + 1] - target)]
                     ELSE best)

findClosestIndex(ids, target) ==
  IF Len(ids) = 0 THEN -1
  ELSE ClosestFrom(ids, target, 1, [idx |-> 0, diff |-> Abs(ids[1] - target)])

\* the index of the exact id, or of the closest one
ResolveIndex(ids, target) ==
  IF Len(ids) = 0 THEN -1
  ELSE IF indexOf(ids, target) # -1 THEN indexOf(ids, target)
  ELSE findClosestIndex(ids, target)

wantedIndex == ResolveIndex(store.idList, currentTransectNum)

\* the ids of a catalog and the slugs a user may enter
MaxIds == 3
IdValues == {2, 5, 8}
IdLists == UNION {[1..n -> IdValues] : n \in 0..MaxIds}
Slugs == {Slug(n) : n \in 0..9} \cup {NoSlug}

\* the panel is mounted on a route; the list is not loaded yet, or it has
\* been read from the entry under the catalog's key
InitPanelMounted ==
  /\ \E ids \in IdLists :
       IF ids = <<>>
         THEN store = InitStore /\ localStorage = [k \in {} |-> NoEntry]
         ELSE /\ store = Assign(InitStore, [idList |-> ids, idsFetchedAt |-> 1])
              /\ localStorage = [k \in {ID_LIST_CACHE_KEY} |-> IdsEntry(ids, 1)]
  /\ requests = <<>>
  /\ \E slug \in Slugs : panel = [InitPanel EXCEPT !.transectNum = slug, !.pending = TRUE]
  /\ cleared = {}

\* the user follows a link to another transect: the watcher of the route's
\* parameter will call normalizeSlugToClosest
Navigate(slug) ==
  /\ slug # panel.transectNum
  /\ ~panel.pending
  /\ panel' = [panel EXCEPT !.transectNum = slug, !.pending = TRUE]
  /\ UNCHANGED <<store, localStorage, requests>>

normalizeSlugToClosest ==
  LET ids == store.idList
      target == currentTransectNum
      exact == indexOf(ids, target)
      idx == ResolveIndex(ids, target)
      closestId == ids[idx + 1]
  IN  /\ panel.pending
      /\ panel' =
           IF Len(ids) = 0 \/ idx < 0
             THEN [panel EXCEPT !.pending = FALSE]
           ELSE IF exact = -1
             THEN [transectNum |-> IF Slug(closestId) # panel.transectNum
                                     THEN Slug(closestId) ELSE panel.transectNum,
                   nonExactEntered |-> target,
                   didNormalizeOnce |-> TRUE,
                   pending |-> Slug(closestId) # panel.transectNum]
           ELSE IF panel.didNormalizeOnce
             THEN [panel EXCEPT !.didNormalizeOnce = FALSE, !.pending = FALSE]
           ELSE [panel EXCEPT !.nonExactEntered = 0, !.pending = FALSE]
      /\ UNCHANGED <<store, localStorage, requests>>

NextPanel ==
  \/ UNCHANGED cleared /\ \E slug \in Slugs : Navigate(slug)
  \/ UNCHANGED cleared /\ normalizeSlugToClosest

SpecPanel == InitPanelMounted /\ [][NextPanel]_vars

(***************************************************************************)
(* The profile with its cache and clearCache, and the history of which      *)
(* requests were in flight when the entry of their url was removed.         *)
(***************************************************************************)
InFlightFor(url) ==
  {id \in DOMAIN requests : Pending(id) /\ requests[id].url = url}

NextInvalidate ==
  \/ UNCHANGED <<panel, cleared>> /\ \E url \in Urls : fetchOpendapAscii(url)
  \/ \E url \in Urls :
       /\ clearCache(url)
       /\ cleared' = cleared \cup InFlightFor(url)
       /\ UNCHANGED panel
  \/ UNCHANGED <<panel, cleared>> /\ \E id \in DOMAIN requests : ForegroundAborted(id)
  \/ UNCHANGED <<panel, cleared>> /\ \E id \in DOMAIN requests, resp \in Responses, quota \in BOOLEAN :
       ForegroundCompletes(id, resp, quota)
  \/ UNCHANGED <<panel, cleared>> /\ \E id \in DOMAIN requests, resp \in Responses, quota \in BOOLEAN :
       BackgroundCompletes(id, resp, quota)

SpecInvalidate == Init /\ [][NextInvalidate]_vars

(***************************************************************************)
(* Properties                                                               *)
(***************************************************************************)
\* the request started by the latest call on a resource (0: none yet)
Latest(res) ==
  LET ids == {id \in DOMAIN requests : requests[id].slot = res}
  IN  IF ids = {} THEN 0 ELSE CHOOSE id \in ids : \A other \in ids : other <= id

\* the data fields of a slot in a state of the store
DataOf(st, slot) == [k \in DOMAIN Cleared(slot) |-> st[k]]

\* entry of a key in a state of localStorage
EntryIn(ls, key) == IF key \in DOMAIN ls THEN ls[key] ELSE NoEntry

\* the step settles request id
Settles(id) == Pending(id) /\ requests'[id].status = "done"

\* C1: whenever a foreground request settles with a response (data or
\* failure) and writes it to its slot, it is the request of the latest call
\* made on that slot, whether that call went to the network or was served
\* from the cache.
C1_OnlyLatestRequestApplied ==
  [][\A id \in DOMAIN requests :
       (/\ Settles(id)
        /\ \E resp \in Responses, quota \in BOOLEAN : ForegroundCompletes(id, resp, quota))
         => id = Latest(requests[id].slot)]_vars

\* C2: a foreground request for which a later foreground request of the same
\* slot and key has been started never settles with a response: its data is
\* never applied to the store.
C2_SupersededNeverApplied ==
  [][\A i \in DOMAIN requests :
       (/\ requests[i].kind = "fg"
        /\ Settles(i)
        /\ \E j \in DOMAIN requests :
             /\ j > i
             /\ requests[j].kind = "fg"
             /\ requests[j].slot = requests[i].slot
             /\ requests[j].url = requests[i].url)
         => ~(\E resp \in Responses, quota \in BOOLEAN : ForegroundCompletes(i, resp, quota))]_vars

\* C2 witness: of two foreground requests for one key the first was cancelled
\* and the second applied, and its data is what the store shows.
C2_Witness ==
  \E i, j \in DOMAIN requests :
    /\ i < j
    /\ requests[i].kind = "fg" /\ requests[j].kind = "fg"
    /\ requests[i].slot = requests[j].slot /\ requests[i].url = requests[j].url
    /\ requests[i].outcome = "cancelled"
    /\ requests[j].outcome = "applied"
    /\ store[Fields(requests[j].slot).ready]

\* C3: per resource (the four series slots and the catalog of ids) at most
\* one foreground request that has not been cancelled is in flight.
C3_OneForegroundInFlight ==
  \A res \in Slots \cup {"ids"} :
    Cardinality({id \in DOMAIN requests :
                   /\ requests[id].slot = res
                   /\ requests[id].kind \in {"fg", "ids"}
                   /\ Pending(id)
                   /\ ~requests[id].aborted}) <= 1

\* C4: the continuation of an aborted foreground request changes no field of
\* the store and no cache entry.
C4_AbortedCompletionHasNoEffect ==
  [][\A id \in DOMAIN requests :
       ForegroundAborted(id) => (store' = store /\ localStorage' = localStorage)]_vars

\* C5: a fetch called while a cache entry exists for its key applies the
\* cached text (readiness true, error null) and starts a background refresh
\* for that key; the same for the catalog of ids.
C5_CachedEntryServedAndRefreshed ==
  [][/\ \A slot \in Slots : \A url \in UrlsOf(slot) :
          (FetchSeries(slot, url) /\ getItem(CacheKeyOf(slot, url)).present)
            => /\ store'[Fields(slot).ready] = TRUE
               /\ store'[Fields(slot).error] = null
               /\ requests' = Append(requests, Request("bg", slot, url))
     /\ (fetchTransectIdList /\ getItem(ID_LIST_CACHE_KEY).present /\ store.idList = <<>>)
          => /\ store'.idList = getItem(ID_LIST_CACHE_KEY).list
             /\ Len(requests') = Len(requests) + 1]_vars

\* C6: a background refresh that settles, whatever the response, leaves the
\* store as it is and changes no cache entry but that of its own key.
C6_RefreshTouchesOnlyItsEntry ==
  [][\A id \in DOMAIN requests :
       (/\ Settles(id)
        /\ \E resp \in Responses, quota \in BOOLEAN : BackgroundCompletes(id, resp, quota))
         => /\ store' = store
            /\ \A key \in (DOMAIN localStorage \cup DOMAIN localStorage')
                            \ {CacheKeyOf(requests[id].slot, requests[id].url)} :
                 EntryIn(localStorage', key) = EntryIn(localStorage, key)]_vars

\* C6 witness: a refresh has replaced the entry of its key while the slot
\* still shows the data and the timestamp of the older entry.
C6_Witness ==
  \E id \in DOMAIN requests :
    LET r == requests[id]
        f == Fields(r.slot)
        entry == getItem(CacheKeyOf(r.slot, r.url))
    IN  /\ r.kind = "bg" /\ r.outcome = "stored"
        /\ store[f.ready]
        /\ entry.present
        /\ entry.t > store[f.fetchedAt]

\* a refresh fails: no success response, a text over the ceiling, or a
\* storage that refuses the write
RefreshFails(resp, quota) ==
  resp.status # "ok" \/ resp.text.len > MAX_LOCALSTORAGE_CACHE_SIZE \/ quota

C8_FailureClearsReadiness ==
  [][\A id \in DOMAIN requests, resp \in Responses :
       (Settles(id) /\ resp.status # "ok" /\ ForegroundCompletes(id, resp, FALSE))
         => LET slot == requests[id].slot
            IN  /\ store'[Fields(slot).error] # null
                /\ store'[Fields(slot).ready] = FALSE
                /\ DataOf(store', slot) = Cleared(slot)]_vars

\* C9: every series entry of the cache holds a text that the parser of its
\* slot accepts.
C9_CachedTextParses ==
  \A slot \in Slots : \A url \in UrlsOf(slot) :
    LET entry == getItem(CacheKeyOf(slot, url))
    IN  entry.present => ParseFor(slot, entry.data).ok

\* C10: every series entry of the cache holds a text of at most
\* MAX_LOCALSTORAGE_CACHE_SIZE characters.
C10_EntriesWithinCeiling ==
  \A slot \in Slots : \A url \in UrlsOf(slot) :
    getItem(CacheKeyOf(slot, url)).data.len <= MAX_LOCALSTORAGE_CACHE_SIZE

\* C10 witness: a text over the ceiling was fetched, parsed and shown, and
\* the cache holds no entry for its key.
C10_Witness ==
  \E id \in DOMAIN requests :
    /\ requests[id].kind = "fg" /\ requests[id].outcome = "applied"
    /\ requests[id].slot = "profile"
    /\ store.rawText.len > MAX_LOCALSTORAGE_CACHE_SIZE
    /\ store.warning = "Data fetched and parsed, but skipped local caching due to size."
    /\ ~getItem(cacheKey(requests[id].url)).present

\* the fields of the store that carry a message for the caller
SignalFields == {"error", "warning", "idsError", "basalError", "momentaryError", "mhwError"}

\* C11: when a foreground request of a series slot settles with a text over
\* the ceiling that its parser accepts, then afterwards the cache holds no
\* entry for its key, a field of the store carries the "skipped" warning, and
\* the parsed result is applied: readiness true, error null.
C11_OverflowSkipsCacheAndWarns ==
  [][\A id \in DOMAIN requests, resp \in Responses :
       (/\ Settles(id)
        /\ resp.status = "ok"
        /\ resp.text.len > MAX_LOCALSTORAGE_CACHE_SIZE
        /\ ParseFor(requests[id].slot, resp.text).ok
        /\ ForegroundCompletes(id, resp, FALSE))
         => LET r == requests[id]
                f == Fields(r.slot)
            IN  /\ ~EntryIn(localStorage', CacheKeyOf(r.slot, r.url)).present
                /\ \E k \in SignalFields :
                     store'[k] = "Data fetched and parsed, but skipped local caching due to size."
                /\ store'[f.ready] = TRUE
                /\ store'[f.error] = null
                /\ DataOf(store', r.slot) = ParseFor(r.slot, resp.text).data]_vars

Corrupt(entry) == entry.present /\ ~entry.json

\* C12: an operation that reads the cache and finds an item that is not JSON
\* does what it does when the item is absent and sets no error field: a fetch
\* of a series slot and the catalog fetch go to the network with the error
\* cleared, and loadFromCache leaves the error as it was.
C12_CorruptEntryIsAbsence ==
  [][/\ \A slot \in Slots : \A url \in UrlsOf(slot) :
          (FetchSeries(slot, url) /\ Corrupt(getItem(CacheKeyOf(slot, url))))
            => /\ requests' = Append(Abort(requests, store[Fields(slot).aborter]),
                                      Request("fg", slot, url))
               /\ store'[Fields(slot).error] = null
     /\ (fetchTransectIdList /\ Corrupt(getItem(ID_LIST_CACHE_KEY)) /\ store.idList = <<>>)
          => /\ requests' = Append(requests, Request("ids", "ids", "IDS_URL"))
             /\ store'.idsError = null
     /\ \A url \in Urls :
          (loadFromCache(url) /\ Corrupt(getItem(cacheKey(url))))
            => store'.error = store.error]_vars

\* C13: when the write to the cache throws after a response was fetched and
\* parsed, the parsed data is applied to the store and no error field is set,
\* for the catalog of ids as for the series slots.
C13_CacheWriteFailureIsSilent ==
  [][\A id \in DOMAIN requests, resp \in Responses :
       /\ (Settles(id) /\ ForegroundCompletes(id, resp, TRUE))
            => LET r == requests[id]
               IN  /\ DataOf(store', r.slot) = ParseFor(r.slot, resp.text).data
                   /\ store'[Fields(r.slot).ready] = TRUE
                   /\ store'[Fields(r.slot).error] = store[Fields(r.slot).error]
       /\ (Settles(id) /\ IdListCompletes(id, resp, TRUE))
            => /\ store'.idList = parseIdList(resp.text)
               /\ store'.idsError = store.idsError]_vars

\* C14: a step that settles a request starts no request, and no step starts
\* more than one: after a failure the network is left alone until a fetch
\* action is called again.
C14_NoAutomaticRetry ==
  [][/\ Len(requests') <= Len(requests) + 1
     /\ (\E id \in DOMAIN requests : Settles(id)) => Len(requests') = Len(requests)]_vars

\* C14 witness: a foreground request has failed, its slot shows the error,
\* and no request of that slot is in flight.
C14_Witness ==
  \E id \in DOMAIN requests :
    /\ requests[id].kind = "fg" /\ requests[id].outcome = "failed"
    /\ id = Len(requests)
    /\ store[Fields(requests[id].slot).error] \in {NetworkError, HttpError(requests[id].slot)}
    /\ \A other \in DOMAIN requests : ~Pending(other)

\* C15: in every state of the store the altitude matrix has as many rows as
\* there are years, and every row is as long as the cross-shore axis.
C15_AltitudeMatchesAxes ==
  /\ Len(store.altitudeByYear) = Len(store.years)
  /\ \A t \in 1..Len(store.altitudeByYear) :
       Len(store.altitudeByYear[t]) = Len(store.crossShore)

\* C15 witness: a profile of two years over three cross-shore positions is
\* shown.
C15_Witness ==
  /\ store.chartReady
  /\ Len(store.years) = 2 /\ Len(store.crossShore) = 3
  /\ Len(store.altitudeByYear) = 2

(***************************************************************************)
(* What a document says, read line by line without the store's functions   *)
(***************************************************************************)
HasDelimiter(lines) == \E i \in 1..Len(lines) : lines[i].k = "sep"

\* the lines after the first delimiter; all lines when there is none
AfterDelimiter(lines) ==
  IF HasDelimiter(lines)
    THEN LET d == CHOOSE i \in 1..Len(lines) :
                    lines[i].k = "sep" /\ \A j \in 1..(i - 1) : lines[j].k # "sep"
         IN  SubSeq(lines, d + 1, Len(lines))
    ELSE lines

\* the lines between the first header of exactly this name and the next header
ExactPayload(lines, name) ==
  LET hs == {i \in 1..Len(lines) : lines[i].k = "hdr" /\ lines[i].name = name}
  IN  IF hs = {} THEN <<>>
      ELSE LET h == CHOOSE i \in hs : \A j \in hs : i <= j
               after == {j \in (h + 1)..Len(lines) : lines[j].k = "hdr"}
               e == IF after = {} THEN Len(lines) + 1
                    ELSE CHOOSE j \in after : \A k \in after : j <= k
           IN  SubSeq(lines, h + 1, e - 1)

\* the payload of a name in the document the store has received
PayloadOf(name) == ExactPayload(AfterDelimiter(store.rawText.lines), name)

\* the data tokens of a payload in reading order, its index groups left out
DataTokens(block) == Flatten([i \in 1..Len(block) |-> block[i].toks])

\* every row starts with one to four index groups
Indexed(block) == block # <<>> /\ \A i \in 1..Len(block) : Len(block[i].idx) \in 1..4

\* no row has more index groups than the pattern strips
Strippable(block) == \A i \in 1..Len(block) : Len(block[i].idx) <= 4

\* one missing marker for both encodings
Unified(tokens) ==
  [i \in 1..Len(tokens) |->
     IF tokens[i].nan \/ tokens[i].v = SENTINEL THEN Missing ELSE Val(tokens[i].v)]

\* the result has the values of the tokens, one for one and in their order
SameNumbers(result, tokens) ==
  /\ Len(result) = Len(tokens)
  /\ \A i \in 1..Len(tokens) :
       IF tokens[i].nan THEN result[i] = Missing
       ELSE \/ result[i] = Val(tokens[i].v)
            \/ tokens[i].v = SENTINEL /\ result[i] = Missing

\* which parse step a state of SpecParse is the result of
SeriesParsed(slot) == store[Fields(slot).ready] \/ store[Fields(slot).error] # null
IdListParsed == store.idsFetchedAt # 0 \/ store.idsError # null
WaterLevelsParsed == store.meanHighWaterList # <<>> \/ store.waterError # null

\* C16: when the altitude payload is laid out transposed (a row per
\* cross-shore position, X rows of T values, T # X), the profile is resolved
\* to T rows of X values with output[t][x] = flat[x*T+t].
C16_TransposedStreamResolved ==
  LET alt == PayloadOf("altitude")
      flat == Unified(DataTokens(alt))
      T == Len(DataTokens(PayloadOf("time")))
      X == Len(DataTokens(PayloadOf("cross_shore")))
  IN  (/\ SeriesParsed("profile")
       /\ T # X /\ Len(alt) = X
       /\ \A i \in 1..Len(alt) : Len(alt[i].toks) = T /\ Len(alt[i].idx) <= 4
       /\ \A i \in 1..Len(DataTokens(alt)) : ~DataTokens(alt)[i].nan)
        => /\ store.chartReady
           /\ Len(store.altitudeByYear) = T
           /\ \A t \in 1..T : \A x \in 1..X :
                store.altitudeByYear[t][x] = flat[(x - 1) * T + t]

\* C17: in the result of every parser (profile altitude, coastline series,
\* water-level series and lists) position i is the missing marker exactly
\* when token i of the payload is the sentinel -9999 or NaN, and every other
\* position holds the value of its token.
C17_MissingEncodingsUnified ==
  LET alt == DataTokens(PayloadOf("altitude"))
      T == Len(DataTokens(PayloadOf("time")))
      X == Len(DataTokens(PayloadOf("cross_shore")))
      Of(name) == Unified(DataTokens(PayloadOf(name)))
      high == DataTokens(PayloadOf("mean_high_water"))
      low == DataTokens(PayloadOf("mean_low_water"))
  IN  /\ (/\ SeriesParsed("profile")
          /\ T > 0 /\ X > 0 /\ Len(alt) = T * X
          /\ Strippable(PayloadOf("altitude")))
           => /\ store.chartReady
              /\ Flatten(store.altitudeByYear) = Unified(alt)
      /\ (SeriesParsed("basal") /\ Strippable(PayloadOf("basal_coastline")))
           => /\ store.basalCoastline = Of("basal_coastline")
              /\ store.testingCoastline = Of("testing_coastline")
      /\ (SeriesParsed("momentary") /\ Strippable(PayloadOf("momentary_coastline")))
           => store.momentaryCoastline = Of("momentary_coastline")
      /\ (SeriesParsed("mhw") /\ Strippable(PayloadOf("mean_high_water_cross")))
           => /\ store.meanHighWaterCross = Of("mean_high_water_cross")
              /\ store.meanLowWaterCross = Of("mean_low_water_cross")
      /\ (/\ WaterLevelsParsed
          /\ Len(high) > 0 /\ Len(high) = Len(low)
          /\ Strippable(PayloadOf("mean_high_water")))
           => /\ store.meanHighWaterList = Unified(high)
              /\ store.meanLowWaterList = Unified(low)

\* C18: when every row of a payload starts with one to four index groups,
\* the parsed sequence has exactly the data values of the rows in reading
\* order, and none of the index integers.
C18_IndexGroupsStripped ==
  LET Tokens(name) == DataTokens(PayloadOf(name))
      Numeric(tokens) == SelectSeq(tokens, LAMBDA t : ~t.nan)
  IN  /\ (store.chartReady /\ Indexed(PayloadOf("altitude")))
           => SameNumbers(Flatten(store.altitudeByYear), Numeric(Tokens("altitude")))
      /\ (SeriesParsed("basal") /\ Indexed(PayloadOf("basal_coastline")))
           => /\ store.basalReady
              /\ SameNumbers(store.basalCoastline, Tokens("basal_coastline"))
              /\ SameNumbers(store.testingCoastline, Tokens("testing_coastline"))
      /\ (SeriesParsed("momentary") /\ Indexed(PayloadOf("momentary_coastline")))
           => /\ store.momentaryReady
              /\ SameNumbers(store.momentaryCoastline, Tokens("momentary_coastline"))
      /\ (SeriesParsed("mhw") /\ Indexed(PayloadOf("mean_high_water_cross")))
           => /\ store.mhwReady
              /\ SameNumbers(store.meanHighWaterCross, Tokens("mean_high_water_cross"))
              /\ SameNumbers(store.meanLowWaterCross, Tokens("mean_low_water_cross"))
      /\ (IdListParsed /\ Indexed(PayloadOf("id")))
           => store.idList = [i \in 1..Len(Numeric(Tokens("id"))) |-> Numeric(Tokens("id"))[i].v]
      /\ (WaterLevelsParsed /\ Indexed(PayloadOf("mean_high_water")))
           => SameNumbers(store.meanHighWaterList, Tokens("mean_high_water"))

\* C18 witness: a coastline series whose rows carry four index groups each
\* was parsed to its two values.
C18_Witness ==
  /\ store.basalReady
  /\ Indexed(PayloadOf("basal_coastline"))
  /\ Len(PayloadOf("basal_coastline")[1].idx) = 4
  /\ store.basalCoastline = <<Val(7), Val(8)>>

\* C19: for a document with a delimiter, every parsed result is the result
\* for the lines after the delimiter alone: no header and no number of the
\* preamble (the size 2465, the year 1999) reaches a result.
C19_PreambleIgnored ==
  LET lines == store.rawText.lines
      body == Document(AfterDelimiter(lines))
  IN  HasDelimiter(lines)
        => /\ \A slot \in Slots :
                SeriesParsed(slot)
                  => IF ParseText(slot, body).ok
                       THEN /\ store[Fields(slot).ready]
                            /\ DataOf(store, slot) = ParseText(slot, body).data
                       ELSE store[Fields(slot).error] = ParseText(slot, body).error
           /\ IdListParsed
                => /\ store.idList = parseIdList(body)
                   /\ \A i \in 1..Len(store.idList) : store.idList[i] # TRANSECT_COUNT
           /\ WaterLevelsParsed
                => /\ store.meanHighWaterList = parseWaterLevels(body).high
                   /\ store.meanLowWaterList = parseWaterLevels(body).low
           /\ store.basalReady => \A i \in 1..Len(store.basalYears) :
                                    store.basalYears[i] # ToString(1999)

\* C19 witness: the catalog was parsed from a document whose preamble has a
\* header of id with the size 2465 under it; the list has the two ids of the
\* payload.
C19_Witness ==
  /\ HasDelimiter(store.rawText.lines)
  /\ store.rawText.lines[1] = Hdr("id")
  /\ store.rawText.lines[2] = Row(<<>>, <<Tok(TRANSECT_COUNT)>>)
  /\ store.idList = <<7, 9>>

\* C20: the payload a parser gets for a name is the payload under the header
\* of exactly that name, also when the document has a header whose name
\* contains it (mean_high_water, mean_high_water_cross), and is empty when
\* the document has no header of that name.
C20_HeaderMatchIsExact ==
  LET Values(name) ==
        [i \in 1..Len(DataTokens(PayloadOf(name))) |->
           IF DataTokens(PayloadOf(name))[i].nan THEN Missing
           ELSE Val(DataTokens(PayloadOf(name))[i].v)]
      Clean(name) == Strippable(PayloadOf(name))
  IN  /\ (WaterLevelsParsed /\ Clean("mean_high_water") /\ Clean("mean_low_water"))
           => IF Len(Values("mean_high_water")) = 0
                   \/ Len(Values("mean_high_water")) # Len(Values("mean_low_water"))
                THEN /\ store.waterError # null
                     /\ store.meanHighWaterList = <<>> /\ store.meanLowWaterList = <<>>
                ELSE /\ store.meanHighWaterList = Values("mean_high_water")
                     /\ store.meanLowWaterList = Values("mean_low_water")
      /\ (/\ SeriesParsed("mhw")
          /\ Clean("mean_high_water_cross") /\ Clean("mean_low_water_cross"))
           => /\ store.mhwReady
              /\ store.meanHighWaterCross = Unified(DataTokens(PayloadOf("mean_high_water_cross")))
              /\ store.meanLowWaterCross = Unified(DataTokens(PayloadOf("mean_low_water_cross")))

\* C20 witness: the water-level lists were parsed from a document in which
\* the header of mean_high_water_cross comes before that of mean_high_water.
C20_Witness ==
  /\ store.meanHighWaterList = <<Val(11), Val(12)>>
  /\ store.meanLowWaterList = <<Val(21), Val(22)>>
  /\ \E i, j \in 1..Len(store.rawText.lines) :
       /\ i < j
       /\ store.rawText.lines[i] = Hdr("mean_high_water_cross")
       /\ store.rawText.lines[j] = Hdr("mean_high_water")

\* C21: the identifier list in the store never starts with the declared size
\* of the catalog, 2465, whether it was parsed from a fetched payload or read
\* from the entry persisted under the catalog's key.
C21_ArtifactDropped ==
  store.idList = <<>> \/ store.idList[1] # TRANSECT_COUNT

\* C22: from the exported matrix of a parsed profile (first row: the axis
\* label, then the cross-shore values; every later row: a time label, then
\* the altitudes of that time) the arrays years, crossShore and
\* altitudeByYear are re-derived exactly, missing values included.
C22_MatrixRoundTrip ==
  LET rows == store.chartData
      labels == [i \in 1..(Len(rows) - 1) |-> rows[i + 1].label]
      matrix == [i \in 1..(Len(rows) - 1) |-> rows[i + 1].vals]
  IN  store.chartReady
        => /\ Len(rows) >= 1
           /\ rows[1].label = "cross_shore"
           /\ rows[1].vals = Map(store.crossShore, Val)
           /\ labels = store.years
           /\ matrix = store.altitudeByYear

\* C22 witness: a profile of two years over three positions was parsed, a
\* value of it is missing, and the matrix has the missing marker in its place.
C22_Witness ==
  /\ store.chartReady
  /\ Len(store.chartData) = 3
  /\ Len(store.crossShore) = 3
  /\ \E t \in 1..2, x \in 1..3 :
       /\ store.altitudeByYear[t][x] = Missing
       /\ store.chartData[t + 1].vals[x] = Missing

\* C23: a fetch served from a cache entry leaves in the store, ready, exactly
\* the arrays that a foreground request leaves there when the server answers
\* with the text of that entry: on both paths the parser's result for the
\* text, which depends on the text alone.
C23_CacheHitEqualsFreshFetch ==
  [][/\ \A slot \in Slots : \A url \in UrlsOf(slot) :
          (FetchSeries(slot, url) /\ Usable(slot, getItem(CacheKeyOf(slot, url))))
            => /\ store'[Fields(slot).ready]
               /\ DataOf(store', slot)
                    = ParseFor(slot, getItem(CacheKeyOf(slot, url)).data).data
     /\ \A id \in DOMAIN requests : \A text \in Texts : \A quota \in BOOLEAN :
          (/\ ForegroundCompletes(id, [status |-> "ok", text |-> text], quota)
           /\ ParseFor(requests[id].slot, text).ok)
            => /\ store'[Fields(requests[id].slot).ready]
               /\ DataOf(store', requests[id].slot)
                    = ParseFor(requests[id].slot, text).data
    ]_vars

\* C23 witness: after a foreground request for a url was applied, a later
\* fetch of the url was served from the entry: its refresh is the latest
\* request and the store shows the arrays of the text.
C23_Witness ==
  \E slot \in Slots :
    /\ Latest(slot) # 0
    /\ requests[Latest(slot)].kind = "bg"
    /\ \E id \in DOMAIN requests :
         /\ requests[id].kind = "fg" /\ requests[id].outcome = "applied"
         /\ requests[id].url = requests[Latest(slot)].url
    /\ store[Fields(slot).ready]
    /\ DataOf(store, slot) = ParseFor(slot, GoodText).data

\* C24: every entry in localStorage, under the catalog's key as under the
\* keys of the series, holds a time and the raw text of a response, and no
\* parsed list.
C24_EveryEntryHoldsRawText ==
  \A key \in DOMAIN localStorage :
    /\ localStorage[key].t > 0
    /\ localStorage[key].data \in Texts
    /\ localStorage[key].list = <<>>

\* how many values a payload of the received document has: numbers, or
\* quoted strings
Count(name) == Len(DataTokens(PayloadOf(name)))
CountStrings(name) ==
  Len(Flatten([i \in 1..Len(PayloadOf(name)) |->
                 IF "strs" \in DOMAIN PayloadOf(name)[i]
                   THEN PayloadOf(name)[i].strs ELSE <<>>]))

\* C25: when the area response has no codes, no names, or codes and names of
\* different lengths, and when the reference-point response has no x or a
\* y, lat or lon of another length than x, the dataset's error field is set,
\* its lists in the store keep their values and the entry under its cache
\* key is not written.
C25_MismatchedArraysRejected ==
  [][/\ (/\ \E quota \in BOOLEAN : ParseAreaInfo(quota)
         /\ \/ Count("areacode") = 0 \/ CountStrings("areaname") = 0
            \/ Count("areacode") # CountStrings("areaname"))
          => /\ store'.areaError # null
             /\ store'.areacodeList = store.areacodeList
             /\ store'.areanameList = store.areanameList
             /\ EntryIn(localStorage', AREA_CACHE_KEY) = EntryIn(localStorage, AREA_CACHE_KEY)
     /\ (/\ \E quota \in BOOLEAN : ParseRspInfo(quota)
         /\ \/ Count("rsp_x") = 0
            \/ \E name \in {"rsp_y", "rsp_lat", "rsp_lon"} : Count(name) # Count("rsp_x"))
          => /\ store'.rspError # null
             /\ store'.rspXList = store.rspXList /\ store'.rspYList = store.rspYList
             /\ store'.rspLatList = store.rspLatList /\ store'.rspLonList = store.rspLonList
             /\ EntryIn(localStorage', RSP_CACHE_KEY) = EntryIn(localStorage, RSP_CACHE_KEY)
    ]_vars

\* C25 witness: an area response with two codes and one name was rejected:
\* the error is set, the lists are empty and the key has no entry.
C25_Witness ==
  /\ Count("areacode") = 2 /\ CountStrings("areaname") = 1
  /\ store.areaError = "Area arrays size mismatch or empty"
  /\ store.areacodeList = <<>> /\ store.areanameList = <<>>
  /\ AREA_CACHE_KEY \notin DOMAIN localStorage

\* C26: the i-th record of a parsed coastline series pairs the i-th time
\* label with the i-th value of the series, and its value is a number or the
\* missing marker, never undefined, also when the time axis and the series
\* have different lengths.
C26_RecordsPairedPositionally ==
  store.basalReady
    => /\ Len(store.basalDataPoints) = Len(store.basalYears)
       /\ \A i \in 1..Len(store.basalDataPoints) :
            /\ store.basalDataPoints[i].year = store.basalYears[i]
            /\ store.basalDataPoints[i].value.k \in {"num", "null"}
            /\ i <= Len(store.basalCoastline)
                 => store.basalDataPoints[i].value = store.basalCoastline[i]

\* C27: a completed write for a url (a foreground response parsed and within
\* the ceiling, or a background response within the ceiling, setItem not
\* throwing) leaves under the key of that url exactly its own text and time,
\* whatever the key held before; and an entry changes only by such a write
\* of a request for the url of its key, by clearCache of that url, or, under
\* the catalog's key, by the completion of the catalog's request.
C27_LastWriterWinsPerKey ==
  [][/\ \A id \in DOMAIN requests : \A text \in Texts :
          LET r == requests[id]
              resp == [status |-> "ok", text |-> text]
          IN  (/\ r.kind \in {"fg", "bg"}
               /\ Cacheable(text)
               /\ \/ BackgroundCompletes(id, resp, FALSE)
                  \/ ForegroundCompletes(id, resp, FALSE) /\ ParseFor(r.slot, text).ok)
                => /\ EntryIn(localStorage', CacheKeyOf(r.slot, r.url)).data = text
                   /\ EntryIn(localStorage', CacheKeyOf(r.slot, r.url)).t = now
     /\ \A key \in DOMAIN localStorage \cup DOMAIN localStorage' :
          EntryIn(localStorage', key) # EntryIn(localStorage, key)
            => \/ \E url \in Urls : key = cacheKey(url) /\ clearCache(url)
               \/ \E id \in DOMAIN requests : \E text \in Texts :
                    LET r == requests[id]
                        resp == [status |-> "ok", text |-> text]
                    IN  /\ r.kind \in {"fg", "bg"}
                        /\ key = CacheKeyOf(r.slot, r.url)
                        /\ \/ BackgroundCompletes(id, resp, FALSE)
                           \/ ForegroundCompletes(id, resp, FALSE)
                        /\ EntryIn(localStorage', key).data = text
               \/ /\ key = ID_LIST_CACHE_KEY
                  /\ \E id \in DOMAIN requests : \E resp \in Responses :
                       IdListCompletes(id, resp, FALSE)
    ]_vars

\* C27 witness: two urls have entries; the entry of one was overwritten by a
\* background refresh that completed after the foreground write, with
\* another text than the one the store shows.
C27_Witness ==
  \E u \in Urls : \E v \in Urls \ {u} :
    /\ \E i \in DOMAIN requests : \E j \in DOMAIN requests :
         /\ i < j
         /\ requests[i].kind = "fg" /\ requests[i].outcome = "applied"
         /\ requests[j].kind = "bg" /\ requests[j].outcome = "stored"
         /\ requests[i].url = u /\ requests[j].url = u
    /\ getItem(cacheKey(u)).present /\ getItem(cacheKey(v)).present
    /\ store.chartReady
    /\ getItem(cacheKey(u)).data # store.rawText
    /\ getItem(cacheKey(v)).data = GoodText

\* C28: for a list of ids that is not empty and any target, the resolved
\* index is the index of the target when the list has it, and otherwise the
\* lowest index whose id is closest to the target; it is -1 exactly when the
\* list is empty.
C28_SnapsToNearestTransect ==
  LET ids == store.idList
      target == currentTransectNum
      i == wantedIndex + 1
  IN  /\ (ids = <<>>) <=> (wantedIndex = -1)
      /\ ids # <<>>
           => /\ i \in 1..Len(ids)
              /\ (\E j \in 1..Len(ids) : ids[j] = target) => ids[i] = target
              /\ \A j \in 1..Len(ids) :
                   Abs(ids[i] - target) <= Abs(ids[j] - target)
              /\ (\A j \in 1..Len(ids) : ids[j] # target)
                   => \A j \in 1..(i - 1) :
                        Abs(ids[j] - target) > Abs(ids[i] - target)

\* C28 witness: the slug 5 was entered on the list 8, 2, which has two ids
\* at the distance 3: the slug was replaced by the first of them, 8.
C28_Witness ==
  /\ store.idList = <<8, 2>>
  /\ panel.nonExactEntered = 5
  /\ panel.transectNum = Slug(8)
  /\ wantedIndex = 0

\* C29: while a foreground request of a slot is in flight and not cancelled,
\* the slot's loading flag is true.
C29_LoadingWhileInFlight ==
  \A slot \in Slots :
    (\E id \in DOMAIN requests :
       /\ requests[id].kind = "fg" /\ requests[id].slot = slot
       /\ Pending(id) /\ ~requests[id].aborted)
      => store[Fields(slot).loading]

\* C30: a request that was in flight when clearCache removed the entry of
\* its url does not create the entry again when it completes: if the key has
\* no entry before the completion, it has none after it.
C30_ClearedEntryStaysAbsent ==
  [][\A id \in cleared :
       (/\ Settles(id)
        /\ ~EntryIn(localStorage, cacheKey(requests[id].url)).present)
         => ~EntryIn(localStorage', cacheKey(requests[id].url)).present
    ]_vars

\* C31: when no request of the catalog of ids is in flight and the list of
\* the store is not empty, idsError is null and loadingIds is false; while a
\* request of the catalog is in flight, loadingIds is true.
C31_CatalogSettledClean ==
  LET inFlight == \E id \in DOMAIN requests : requests[id].kind = "ids" /\ Pending(id)
  IN  /\ (~inFlight /\ store.idList # <<>>)
           => (store.idsError = null /\ ~store.loadingIds)
      /\ inFlight => store.loadingIds

\* C32: in every state the lists of a catalog in the store are as long as
\* one another: areacodeList and areanameList; rspXList, rspYList,
\* rspLatList and rspLonList; meanHighWaterList and meanLowWaterList.
C32_ParallelListsSameLength ==
  \A c \in Catalogs :
    \A i \in DOMAIN CatalogFields(c).lists :
      Len(store[CatalogFields(c).lists[i]]) = Len(store[CatalogFields(c).lists[1]])

\* C32 witness: the browser held entries whose arrays differ in length; the
\* reference points came from the network with one value each (the write of
\* their entry failed), the areas with two, and the entry of the water
\* levels is still the uneven one.
C32_Witness ==
  /\ getItem(WATER_CACHE_KEY) = ListsEntry(UnevenLists("water"))
  /\ getItem(RSP_CACHE_KEY) = ListsEntry(UnevenLists("rsp"))
  /\ Len(store.rspXList) = 1 /\ Len(store.rspLonList) = 1
  /\ Len(store.areacodeList) = 2 /\ Len(store.areanameList) = 2
  /\ \A id \in DOMAIN requests : ~Pending(id)

\* C33: in every state where chartReady is true, the parser accepts the
\* store's rawText, and chartData, years, crossShore and altitudeByYear are
\* the parse of that text.
C33_ReadyChartIsParseOfRawText ==
  store.chartReady
    => /\ ParseFor("profile", store.rawText).ok
       /\ DataOf(store, "profile") = ParseFor("profile", store.rawText).data

\* what belongs to a resource (a series slot or a catalog): its fields of
\* the store, the entries under its keys, its requests
Resources == Slots \cup Catalogs

FieldsOf(r) ==
  IF r \in Slots
    THEN DOMAIN Cleared(r)
           \cup {Fields(r).loading, Fields(r).error, Fields(r).ready,
                 Fields(r).fetchedAt, Fields(r).aborter}
           \cup (IF r = "profile" THEN {"rawText", "warning"} ELSE {})
    ELSE {CatalogFields(r).lists[i] : i \in DOMAIN CatalogFields(r).lists}
           \cup {CatalogFields(r).loading, CatalogFields(r).error}

KeysOf(r) ==
  IF r \in Slots
    THEN {CacheKeyOf(r, url) : url \in UrlsOf(r)}
    ELSE {CatalogFields(r).key}

View(r, st, ls, reqs) ==
  [fields |-> [k \in FieldsOf(r) |-> st[k]],
   entries |-> [k \in KeysOf(r) |-> EntryIn(ls, k)],
   requests |-> [id \in {i \in DOMAIN reqs : reqs[i].slot = r} |-> reqs[id]]]

\* C34: a step (a call of an action of a resource, the failure, the
\* cancellation or the completion of one of its requests) changes the
\* fields, the cache entries and the requests of one resource at most:
\* those of every other resource stay as they were.
C34_SlotsAreIndependent ==
  [][Cardinality({r \in Resources :
                    View(r, store', localStorage', requests')
                      # View(r, store, localStorage, requests)}) <= 1
    ]_vars

\* C34 witness: a request of the profile is in flight, not cancelled, with
\* loading true and no error, while the momentary series has had a request
\* cancelled by a later call whose request then failed.
C34_Witness ==
  /\ \E id \in DOMAIN requests :
       /\ requests[id].slot = "profile" /\ requests[id].kind = "fg"
       /\ Pending(id) /\ ~requests[id].aborted
  /\ store.loading /\ store.error = null
  /\ \E i \in DOMAIN requests : \E j \in DOMAIN requests :
       /\ requests[i].slot = "momentary" /\ requests[i].outcome = "cancelled"
       /\ requests[j].slot = "momentary" /\ requests[j].outcome = "failed"
  /\ store.momentaryError # null /\ ~store.loadingMomentary

\* C35: a call of a series fetch with an index outside 0..2464 sets the
\* error field of its slot to 'Invalid transect index' and nothing else:
\* no request starts or is aborted, no entry is read into the store or
\* written, the slot's data, readiness and loading fields stay.
C35_InvalidIndexSetsOnlyError ==
  [][\A i \in TransectIndices :
       (i < 0 \/ i >= TRANSECT_COUNT)
         => /\ fetchBasalCoastline(i)
                 => /\ store' = [store EXCEPT !.basalError = "Invalid transect index"]
                    /\ UNCHANGED <<localStorage, requests>>
            /\ fetchMomentaryCoastline(i)
                 => /\ store' = [store EXCEPT !.momentaryError = "Invalid transect index"]
                    /\ UNCHANGED <<localStorage, requests>>
            /\ fetchMeanHighWaterCross(i)
                 => /\ store' = [store EXCEPT !.mhwError = "Invalid transect index"]
                    /\ UNCHANGED <<localStorage, requests>>
    ]_vars

\* C35 witness: the basal series was served from the cache, its refresh is
\* still in flight, and a call with an index out of range has set the error:
\* the error is set while the series is ready.
C35_Witness ==
  /\ store.basalError = "Invalid transect index"
  /\ store.basalReady /\ store.basalDataPoints # <<>> /\ ~store.loadingBasal
  /\ \E id \in DOMAIN requests :
       requests[id].slot = "basal" /\ Pending(id) /\ ~requests[id].aborted

\* C36: with a network that answers every request, every request started by
\* a fetch action settles; a request that settles as failed leaves its
\* message in the error field of its resource; and in every state where no
\* request is in flight every loading flag is false.
C36_EveryFetchSettles ==
  /\ \A n \in 1..MaxReq :
       (n \in DOMAIN requests /\ Pending(n)) ~> (n \in DOMAIN requests /\ ~Pending(n))
  /\ [][\A id \in DOMAIN requests :
          (Settles(id) /\ requests'[id].outcome = "failed" /\ requests[id].kind # "bg")
            => IF requests[id].kind = "ids"
                 THEN store'.idsError # null
                 ELSE store'[Fields(requests[id].slot).error] # null
       ]_vars
  /\ []((\A id \in DOMAIN requests : ~Pending(id))
          => (/\ \A slot \in Slots : ~store[Fields(slot).loading]
              /\ ~store.loadingIds))

\* C36 witness: every request the bound allows was started and has settled,
\* one of them cancelled and one failed; the error is set and nothing loads.
C36_Witness ==
  /\ Len(requests) = MaxReq
  /\ \A id \in DOMAIN requests : ~Pending(id)
  /\ \E id \in DOMAIN requests : requests[id].outcome = "cancelled"
  /\ \E id \in DOMAIN requests : requests[id].outcome = "failed"
  /\ store.error # null /\ ~store.loading

\* C37: a call of the fetch action of a catalog that finds a list of the
\* catalog filled in the store starts no request and changes neither the
\* store nor localStorage; a call that finds the lists empty and a valid
\* entry under the catalog's key assigns the lists of the entry and starts
\* no request.
C37_CatalogFetchMemoised ==
  [][\A c \in Catalogs :
       LET f == CatalogFields(c)
           entry == getItem(f.key)
           filled == \E i \in DOMAIN f.lists : Len(store[f.lists[i]]) > 0
       IN  /\ (filled /\ FetchCatalog(c))
                => UNCHANGED <<store, localStorage, requests>>
           /\ (~filled /\ ValidLists(c, entry) /\ FetchCatalog(c))
                => /\ \A i \in DOMAIN f.lists : store'[f.lists[i]] = entry.list[i]
                   /\ UNCHANGED <<localStorage, requests>>
    ]_vars

\* C37 witness: the lists of the three catalogs were read from the entries
\* of an earlier session, and no request was ever started.
C37_Witness ==
  /\ requests = <<>>
  /\ \A c \in Catalogs :
       \A i \in DOMAIN CatalogFields(c).lists :
         /\ store[CatalogFields(c).lists[i]] = StoredLists(c)[i]
         /\ Len(store[CatalogFields(c).lists[i]]) > 0

\* C38: where clearCache is never called, a url has an entry only after a
\* foreground fetch of it succeeded with a text within the ceiling and a
\* write that succeeded.  A later fetchOpendapAscii of that url is served
\* from the entry: the one request it starts is a background refresh, it
\* aborts nothing, and the store shows the parse of a text that a
\* foreground fetch can have stored.
C38_StoredFetchIsServedFromCache ==
  [][\A url \in Urls :
       (getItem(cacheKey(url)).present /\ fetchOpendapAscii(url))
         => /\ requests' = Append(requests, Request("bg", "profile", url))
            /\ store'.chartReady
            /\ \E text \in Texts :
                 /\ Cacheable(text) /\ ParseFor("profile", text).ok
                 /\ DataOf(store', "profile") = ParseFor("profile", text).data
    ]_vars
====
